---- MODULE Spec2Model ----
(***************************************************************************)
(* Model of the light-buffer pass of MAGE (LBufferPass): per-frame light   *)
(* processing, packing of the six light buffers, the grow-only shadow-map  *)
(* buffers and the binding of the LBuffer to the pixel and compute stages. *)
(*                                                                         *)
(* Matrices are 4x4 integer matrices in the row-vector convention of       *)
(* DirectXMath (v' = v * M).  Quarter-turn rotations and translations are  *)
(* exact over the integers, so products, transposes and point transforms   *)
(* are computed, not assumed.                                              *)
(***************************************************************************)
EXTENDS Integers, Sequences, FiniteSets, TLC

(***************************************************************************)
(* Bounds of the model.                                                    *)
(***************************************************************************)
\* Largest total number of light nodes in one scene.
MaxLights == 2

\* Largest number of Render calls on one LBufferPass.
MaxFrames == 2

(***************************************************************************)
(* Matrix and vector arithmetic (DirectXMath).                             *)
(***************************************************************************)
XMMatrixIdentity ==
    << <<1, 0, 0, 0>>, <<0, 1, 0, 0>>, <<0, 0, 1, 0>>, <<0, 0, 0, 1>> >>

XMMatrixTranslation(x, y, z) ==
    << <<1, 0, 0, 0>>, <<0, 1, 0, 0>>, <<0, 0, 1, 0>>, <<x, y, z, 1>> >>

\* XMMatrixRotationY(angle) with cos(angle) = c and sin(angle) = s.
XMMatrixRotationY(c, s) ==
    << <<c, 0, -s, 0>>, <<0, 1, 0, 0>>, <<s, 0, c, 0>>, <<0, 0, 0, 1>> >>

\* XMMatrixRotationX(angle) with cos(angle) = c and sin(angle) = s.
XMMatrixRotationX(c, s) ==
    << <<1, 0, 0, 0>>, <<0, c, s, 0>>, <<0, -s, c, 0>>, <<0, 0, 0, 1>> >>

\* Entry (i, j) of the product A * B.
Entry(A, B, i, j) ==
    A[i][1] * B[1][j] + A[i][2] * B[2][j] + A[i][3] * B[3][j] + A[i][4] * B[4][j]

\* operator* of XMMATRIX.
XMMatrixMultiply(A, B) ==
    << << Entry(A, B, 1, 1), Entry(A, B, 1, 2), Entry(A, B, 1, 3), Entry(A, B, 1, 4) >>,
       << Entry(A, B, 2, 1), Entry(A, B, 2, 2), Entry(A, B, 2, 3), Entry(A, B, 2, 4) >>,
       << Entry(A, B, 3, 1), Entry(A, B, 3, 2), Entry(A, B, 3, 3), Entry(A, B, 3, 4) >>,
       << Entry(A, B, 4, 1), Entry(A, B, 4, 2), Entry(A, B, 4, 3), Entry(A, B, 4, 4) >> >>

XMMatrixTranspose(A) ==
    << << A[1][1], A[2][1], A[3][1], A[4][1] >>,
       << A[1][2], A[2][2], A[3][2], A[4][2] >>,
       << A[1][3], A[2][3], A[3][3], A[4][3] >>,
       << A[1][4], A[2][4], A[3][4], A[4][4] >> >>

\* Integer division rounding toward zero (the results used here are exact).
Quot(a, b) == IF b = 0 THEN 0
              ELSE IF (a >= 0) = (b > 0)
                   THEN (IF a >= 0 THEN a ELSE -a) \div (IF b > 0 THEN b ELSE -b)
                   ELSE -((IF a >= 0 THEN a ELSE -a) \div (IF b > 0 THEN b ELSE -b))

\* XMVector3TransformCoord: (x, y, z, 1) * M, divided by w.
XMVector3TransformCoord(v, M) ==
    LET w == v[1] * M[1][4] + v[2] * M[2][4] + v[3] * M[3][4] + M[4][4]
    IN  << Quot(v[1] * M[1][1] + v[2] * M[2][1] + v[3] * M[3][1] + M[4][1], w),
           Quot(v[1] * M[1][2] + v[2] * M[2][2] + v[3] * M[3][2] + M[4][2], w),
           Quot(v[1] * M[1][3] + v[2] * M[2][3] + v[3] * M[3][3] + M[4][3], w) >>

\* XMVector3TransformNormal: (x, y, z, 0) * M, the translation row is ignored.
XMVector3TransformNormal(v, M) ==
    << v[1] * M[1][1] + v[2] * M[2][1] + v[3] * M[3][1],
       v[1] * M[1][2] + v[2] * M[2][2] + v[3] * M[3][2],
       v[1] * M[1][3] + v[2] * M[2][3] + v[3] * M[3][3] >>

\* Integer square root (largest r with r * r <= n).
ISqrt(n) == CHOOSE r \in 0..n : r * r <= n /\ (r + 1) * (r + 1) > n

\* XMVector3Normalize on vectors whose length is an integer.
XMVector3Normalize(v) ==
    LET len == ISqrt(v[1] * v[1] + v[2] * v[2] + v[3] * v[3])
    IN  << Quot(v[1], len), Quot(v[2], len), Quot(v[3], len) >>

Negate(v) == << -v[1], -v[2], -v[3] >>

\* 1.0f / x, kept as an exact fraction.
Reciprocal(x) == [num |-> 1, den |-> x]

(***************************************************************************)
(* The scene: light nodes (transform node + light) and the frame's camera  *)
(* transforms, the read-only inputs of LBufferPass::Render.                *)
(***************************************************************************)
\* A transform node placed at world position (x, y, z), without rotation.
TransformNodeAt(x, y, z) ==
    [object_to_world |-> XMMatrixTranslation(x, y, z),
     world_to_object |-> XMMatrixTranslation(-x, -y, -z)]

GetWorldEye(transform) ==
    XMVector3TransformCoord(<<0, 0, 0>>, transform.object_to_world)

GetWorldForward(transform) ==
    XMVector3TransformNormal(<<0, 0, 1>>, transform.object_to_world)

\* A view-to-projection matrix of a light camera (a scaling, exact in integers).
LightProjection(sx, sy) ==
    << <<sx, 0, 0, 0>>, <<0, sy, 0, 0>>, <<0, 0, 1, 0>>, <<0, 0, 0, 1>> >>

\* The light nodes of the scenes, by name.
DirectionalLightNodes == { "D1", "D2" }

OmniLightNodes == { "O1", "O2" }

SpotLightNodes == { "S1", "S2" }

Node(name) ==
    CASE name = "D1" ->
            [transform |-> TransformNodeAt(0, 0, 0), light |-> [intensity |-> 1]]
      [] name = "D2" ->
            [transform |-> TransformNodeAt(5, 0, 0), light |-> [intensity |-> 2]]
      [] name = "O1" ->
            [transform |-> TransformNodeAt(0, 0, 0),
             light |-> [intensity |-> 1, distance_falloff_end |-> 1,
                        distance_falloff_range |-> 1,
                        bs |-> [p |-> <<0, 0, 0>>, r |-> 1],
                        view_to_projection |-> LightProjection(2, 2)]]
      [] name = "O2" ->
            [transform |-> TransformNodeAt(2, 0, 0),
             light |-> [intensity |-> 2, distance_falloff_end |-> 2,
                        distance_falloff_range |-> 2,
                        bs |-> [p |-> <<0, 0, 0>>, r |-> 2],
                        view_to_projection |-> LightProjection(3, 3)]]
      [] name = "S1" ->
            [transform |-> TransformNodeAt(0, 0, 0),
             light |-> [intensity |-> 1, exponent_property |-> 1,
                        distance_falloff_end |-> 1, distance_falloff_range |-> 1,
                        cos_umbra |-> 0, cos_range |-> 1,
                        aabb |-> [min |-> <<-1, -1, -1>>, max |-> <<1, 1, 1>>],
                        view_to_projection |-> LightProjection(2, 2)]]
      [] name = "S2" ->
            [transform |-> TransformNodeAt(2, 2, 0),
             light |-> [intensity |-> 2, exponent_property |-> 2,
                        distance_falloff_end |-> 2, distance_falloff_range |-> 2,
                        cos_umbra |-> 0, cos_range |-> 2,
                        aabb |-> [min |-> <<-1, -1, -1>>, max |-> <<1, 1, 1>>],
                        view_to_projection |-> LightProjection(3, 3)]]

\* The camera transforms handed to Render: a camera at the world origin and
\* one at (4, 0, 0), both with the unit orthographic projection.
CameraAt(x, y, z) ==
    [world_to_view |-> XMMatrixTranslation(-x, -y, -z),
     view_to_world |-> XMMatrixTranslation(x, y, z),
     world_to_projection |->
         XMMatrixMultiply(XMMatrixTranslation(-x, -y, -z), XMMatrixIdentity)]

Cameras == { "origin", "right" }

Camera(name) ==
    CASE name = "origin" -> CameraAt(0, 0, 0)
      [] name = "right" -> CameraAt(4, 0, 0)

\* Sequences of pairwise distinct elements of S with at most n elements.
ListsOf(S, n) ==
    { s \in UNION { [1..k -> S] : k \in 0..n } :
        \A i, j \in DOMAIN s : i # j => s[i] # s[j] }

Range(s) == { s[i] : i \in DOMAIN s }

\* The number of light nodes of a scene.
NbLights(sc) ==
    Len(sc.directional) + Len(sc.omni) + Len(sc.spot)
  + Len(sc.sm_directional) + Len(sc.sm_omni) + Len(sc.sm_spot)

\* The lists a getter of the scene (PassBuffer) can return to a Render call
\* that has so far been handed the lists of sc: nodes of the pool that are
\* not in the other list of the same kind, the scene holding at most
\* MaxLights nodes.  The lists of a scene do not change during the call; each
\* is read once, by the step that processes it.
ListsFor(pool, other, sc) == ListsOf(pool \ Range(other), MaxLights - NbLights(sc))

EmptyScene ==
    [directional |-> <<>>, omni |-> <<>>, spot |-> <<>>,
     sm_directional |-> <<>>, sm_omni |-> <<>>, sm_spot |-> <<>>,
     ambient |-> 1, fog_color |-> 1, fog_start |-> 1, fog_range |-> 2]

(***************************************************************************)
(* ViewFrustum::Cull: TRUE when the bounding volume, transformed to clip   *)
(* space, lies entirely outside one of the six planes of [-1,1]^3.         *)
(***************************************************************************)
Corners(aabb) ==
    { << x, y, z >> : x \in {aabb.min[1], aabb.max[1]},
                      y \in {aabb.min[2], aabb.max[2]},
                      z \in {aabb.min[3], aabb.max[3]} }

CullAABB(object_to_projection, aabb) ==
    LET pts == { XMVector3TransformCoord(c, object_to_projection) : c \in Corners(aabb) }
    IN  \E axis \in 1..3 :
            \/ \A q \in pts : q[axis] > 1
            \/ \A q \in pts : q[axis] < -1

CullBS(object_to_projection, bs) ==
    CullAABB(object_to_projection,
             [min |-> << bs.p[1] - bs.r, bs.p[2] - bs.r, bs.p[3] - bs.r >>,
              max |-> << bs.p[1] + bs.r, bs.p[2] + bs.r, bs.p[3] + bs.r >>])

(***************************************************************************)
(* Light packing: LBufferPass::ProcessLights and                           *)
(* LBufferPass::ProcessLightsWithShadowMapping build, per list, the vector *)
(* of packed elements (and of light cameras) in one pass over the list.    *)
(***************************************************************************)
DirectionalLightBuffer(node, world_to_view) ==
    LET d == XMVector3Normalize(
                 XMVector3TransformNormal(GetWorldForward(node.transform), world_to_view))
    IN  [m_neg_d |-> Negate(d), m_I |-> node.light.intensity]

OmniLightBuffer(node, world_to_view) ==
    [m_p |-> XMVector3TransformCoord(GetWorldEye(node.transform), world_to_view),
     m_I |-> node.light.intensity,
     m_distance_falloff_end |-> node.light.distance_falloff_end,
     m_distance_falloff_inv_range |-> Reciprocal(node.light.distance_falloff_range)]

SpotLightBuffer(node, world_to_view) ==
    LET d == XMVector3Normalize(
                 XMVector3TransformNormal(GetWorldForward(node.transform), world_to_view))
    IN  [m_p |-> XMVector3TransformCoord(GetWorldEye(node.transform), world_to_view),
         m_neg_d |-> Negate(d),
         m_I |-> node.light.intensity,
         m_exponent_property |-> node.light.exponent_property,
         m_distance_falloff_end |-> node.light.distance_falloff_end,
         m_distance_falloff_inv_range |-> Reciprocal(node.light.distance_falloff_range),
         m_cos_umbra |-> node.light.cos_umbra,
         m_cos_inv_range |-> Reciprocal(node.light.cos_range)]

\* The cull tests of the omni and spot loops.
CullOmni_point(node, world_to_projection) ==
    CullBS(XMMatrixMultiply(node.transform.object_to_world, world_to_projection),
           [p |-> node.light.bs.p, r |-> 0])

CullOmni(node, world_to_projection) ==
    CullBS(XMMatrixMultiply(node.transform.object_to_world, world_to_projection),
           node.light.bs)

CullSpot(node, world_to_projection) ==
    CullAABB(XMMatrixMultiply(node.transform.object_to_world, world_to_projection),
             node.light.aabb)

\* ProcessLights(directional): every node is packed.
RECURSIVE ProcessDirectionalLights_skip(_, _)
ProcessDirectionalLights_skip(lights, world_to_view) ==
    IF lights = <<>> THEN <<>>
    ELSE IF Len(lights) = 1 THEN <<>>
    ELSE << DirectionalLightBuffer(Node(Head(lights)), world_to_view) >>
            \o ProcessDirectionalLights_skip(Tail(lights), world_to_view)

RECURSIVE ProcessDirectionalLights(_, _)
ProcessDirectionalLights(lights, world_to_view) ==
    IF lights = <<>> THEN <<>>
    ELSE << DirectionalLightBuffer(Node(Head(lights)), world_to_view) >>
            \o ProcessDirectionalLights(Tail(lights), world_to_view)

\* ProcessLights(omni): culled nodes are skipped.
RECURSIVE ProcessOmniLights_reversed(_, _, _)
ProcessOmniLights_reversed(lights, world_to_projection, world_to_view) ==
    IF lights = <<>> THEN <<>>
    ELSE IF CullOmni(Node(Head(lights)), world_to_projection)
         THEN ProcessOmniLights_reversed(Tail(lights), world_to_projection, world_to_view)
         ELSE ProcessOmniLights_reversed(Tail(lights), world_to_projection, world_to_view)
                 \o << OmniLightBuffer(Node(Head(lights)), world_to_view) >>

RECURSIVE ProcessOmniLights(_, _, _)
ProcessOmniLights(lights, world_to_projection, world_to_view) ==
    IF lights = <<>> THEN <<>>
    ELSE IF CullOmni(Node(Head(lights)), world_to_projection)
         THEN ProcessOmniLights(Tail(lights), world_to_projection, world_to_view)
         ELSE << OmniLightBuffer(Node(Head(lights)), world_to_view) >>
                 \o ProcessOmniLights(Tail(lights), world_to_projection, world_to_view)

\* ProcessLights(spot): culled nodes are skipped.
RECURSIVE ProcessSpotLights_nocull(_, _, _)
ProcessSpotLights_nocull(lights, world_to_projection, world_to_view) ==
    IF lights = <<>> THEN <<>>
    ELSE << SpotLightBuffer(Node(Head(lights)), world_to_view) >>
            \o ProcessSpotLights_nocull(Tail(lights), world_to_projection, world_to_view)

RECURSIVE ProcessSpotLights(_, _, _)
ProcessSpotLights(lights, world_to_projection, world_to_view) ==
    IF lights = <<>> THEN <<>>
    ELSE IF CullSpot(Node(Head(lights)), world_to_projection)
         THEN ProcessSpotLights(Tail(lights), world_to_projection, world_to_view)
         ELSE << SpotLightBuffer(Node(Head(lights)), world_to_view) >>
                 \o ProcessSpotLights(Tail(lights), world_to_projection, world_to_view)

\* ProcessLightsWithShadowMapping(directional): every node is packed and no
\* light camera is created.
RECURSIVE ProcessSMDirectionalLights(_, _, _)
ProcessSMDirectionalLights(lights, world_to_view, view_to_world) ==
    IF lights = <<>> THEN [buffer |-> <<>>, cameras |-> <<>>]
    ELSE LET rest == ProcessSMDirectionalLights(Tail(lights), world_to_view, view_to_world)
         IN  [buffer |-> << [m_light |-> DirectionalLightBuffer(Node(Head(lights)), world_to_view)] >>
                           \o rest.buffer,
              cameras |-> rest.cameras]

\* The fixed cube-face rotations: looks +x, -x, +y, -y, +z, -z.
rotations_five ==
    << XMMatrixRotationY(0, 1), XMMatrixRotationY(0, -1),
       XMMatrixRotationX(0, -1), XMMatrixRotationX(0, 1),
       XMMatrixIdentity >>

rotations ==
    << XMMatrixRotationY(0, 1), XMMatrixRotationY(0, -1),
       XMMatrixRotationX(0, -1), XMMatrixRotationX(0, 1),
       XMMatrixIdentity, XMMatrixRotationY(-1, 0) >>

\* The light camera of face i of one omni light.
OmniLightCamera(node, i) ==
    [world_to_lview |-> XMMatrixMultiply(node.transform.world_to_object, rotations[i]),
     lview_to_lprojection |-> node.light.view_to_projection,
     world_to_lprojection |->
         XMMatrixMultiply(XMMatrixMultiply(node.transform.world_to_object, rotations[i]),
                          node.light.view_to_projection)]

\* The light cameras of one omni light from face i on, in the order of
\* rotations (the loop over _countof(rotations)).
RECURSIVE OmniLightCameras(_, _)
OmniLightCameras(node, i) ==
    IF i > Len(rotations) THEN <<>>
    ELSE << OmniLightCamera(node, i) >> \o OmniLightCameras(node, i + 1)

OmniLightWithShadowMappingBuffer(node, world_to_view, view_to_world) ==
    [m_light |-> OmniLightBuffer(node, world_to_view),
     m_cview_to_lview |->
         XMMatrixTranspose(XMMatrixMultiply(view_to_world, node.transform.world_to_object))]

\* ProcessLightsWithShadowMapping(omni).
RECURSIVE ProcessSMOmniLights_nocull(_, _, _, _)
ProcessSMOmniLights_nocull(lights, world_to_projection, world_to_view, view_to_world) ==
    IF lights = <<>> THEN [buffer |-> <<>>, cameras |-> <<>>]
    ELSE LET rest == ProcessSMOmniLights_nocull(Tail(lights), world_to_projection,
                                                world_to_view, view_to_world)
         IN  [buffer |-> << OmniLightWithShadowMappingBuffer(
                                Node(Head(lights)), world_to_view, view_to_world) >>
                          \o rest.buffer,
              cameras |-> OmniLightCameras(Node(Head(lights)), 1) \o rest.cameras]

RECURSIVE ProcessSMOmniLights(_, _, _, _)
ProcessSMOmniLights(lights, world_to_projection, world_to_view, view_to_world) ==
    IF lights = <<>> THEN [buffer |-> <<>>, cameras |-> <<>>]
    ELSE LET rest == ProcessSMOmniLights(Tail(lights), world_to_projection,
                                         world_to_view, view_to_world)
         IN  IF CullOmni(Node(Head(lights)), world_to_projection) THEN rest
             ELSE [buffer |-> << OmniLightWithShadowMappingBuffer(
                                     Node(Head(lights)), world_to_view, view_to_world) >>
                               \o rest.buffer,
                   cameras |-> OmniLightCameras(Node(Head(lights)), 1) \o rest.cameras]

\* The light camera of one spotlight.
SpotLightCamera(node) ==
    [world_to_lview |-> node.transform.world_to_object,
     lview_to_lprojection |-> node.light.view_to_projection,
     world_to_lprojection |->
         XMMatrixMultiply(node.transform.world_to_object, node.light.view_to_projection)]

SpotLightWithShadowMappingBuffer(node, world_to_view, view_to_world) ==
    [m_light |-> SpotLightBuffer(node, world_to_view),
     m_cview_to_lprojection |->
         XMMatrixTranspose(
             XMMatrixMultiply(view_to_world, SpotLightCamera(node).world_to_lprojection))]

\* ProcessLightsWithShadowMapping(spot).
RECURSIVE ProcessSMSpotLights_camfirst(_, _, _, _)
ProcessSMSpotLights_camfirst(lights, world_to_projection, world_to_view, view_to_world) ==
    IF lights = <<>> THEN [buffer |-> <<>>, cameras |-> <<>>]
    ELSE LET rest == ProcessSMSpotLights_camfirst(Tail(lights), world_to_projection,
                                                  world_to_view, view_to_world)
         IN  IF CullSpot(Node(Head(lights)), world_to_projection)
             THEN [buffer |-> rest.buffer,
                   cameras |-> << SpotLightCamera(Node(Head(lights))) >> \o rest.cameras]
             ELSE [buffer |-> << SpotLightWithShadowMappingBuffer(
                                     Node(Head(lights)), world_to_view, view_to_world) >>
                               \o rest.buffer,
                   cameras |-> << SpotLightCamera(Node(Head(lights))) >> \o rest.cameras]

RECURSIVE ProcessSMSpotLights(_, _, _, _)
ProcessSMSpotLights(lights, world_to_projection, world_to_view, view_to_world) ==
    IF lights = <<>> THEN [buffer |-> <<>>, cameras |-> <<>>]
    ELSE LET rest == ProcessSMSpotLights(Tail(lights), world_to_projection,
                                         world_to_view, view_to_world)
         IN  IF CullSpot(Node(Head(lights)), world_to_projection) THEN rest
             ELSE [buffer |-> << SpotLightWithShadowMappingBuffer(
                                     Node(Head(lights)), world_to_view, view_to_world) >>
                               \o rest.buffer,
                   cameras |-> << SpotLightCamera(Node(Head(lights))) >> \o rest.cameras]

(***************************************************************************)
(* GPU resources.  A resource object is identified by the member that owns *)
(* it and its generation, <<member, n>> being the n-th object constructed  *)
(* for that member after the first; the SRV of a resource is named by the  *)
(* identity of its resource, a DSV by <<member, n, index>>.                *)
(***************************************************************************)
NullSRV == << "nullptr", 0 >>

\* The identity of the object that replaces the object id in its member.
NextObject(id) == << id[1], id[2] + 1 >>

\* StructuredBuffer< DataT >(nb_initial_data_elements).  data holds the
\* size() elements of the last update; elements beyond size() are stale.
StructuredBuffer(id, nb_initial_data_elements) ==
    [m_buffer |-> id, m_nb_data_elements |-> nb_initial_data_elements, data |-> <<>>]

\* StructuredBuffer::UpdateData: full replace; the buffer is re-created only
\* when the data does not fit.
UpdateData(sb, data) ==
    IF Len(data) = 0 THEN [sb EXCEPT !.data = <<>>]
    ELSE IF sb.m_nb_data_elements < Len(data)
         THEN [m_buffer |-> NextObject(sb.m_buffer),
               m_nb_data_elements |-> Len(data), data |-> data]
         ELSE [sb EXCEPT !.data = data]

size(sb) == Len(sb.data)

\* ShadowMapBuffer(nb_shadow_maps): one DSV per shadow map, one SRV.
ShadowMapBuffer(id, nb_shadow_maps) ==
    [id |-> id, m_dsvs |-> [i \in 1..nb_shadow_maps |-> << id[1], id[2], i >>], m_srv |-> id]

\* ShadowCubeMapBuffer(nb_shadow_cube_maps): six DSVs per cube map, one SRV.
ShadowCubeMapBuffer(id, nb_shadow_cube_maps) ==
    [id |-> id, m_dsvs |-> [i \in 1..(6 * nb_shadow_cube_maps) |-> << id[1], id[2], i >>], m_srv |-> id]

GetNumberOfShadowMaps(buffer) == Len(buffer.m_dsvs)

GetNumberOfShadowCubeMaps(buffer) == Len(buffer.m_dsvs) \div 6

\* The slots of the lighting SRVs, relative to the first SRV slot.
SLOT_SRV_LIGHTS_START == 0

SLOT_SRV_SHADOW_MAPS_START == 6

SRVSlots == SLOT_SRV_LIGHTS_START..(SLOT_SRV_LIGHTS_START + 8)

\* PS::BindSRVs / CS::BindSRVs: binds srvs[1..n] to the slots from start on.
BindSRVs(table, start, srvs) ==
    [slot \in DOMAIN table |->
        IF slot >= start /\ slot < start + Len(srvs)
        THEN srvs[slot - start + 1] ELSE table[slot]]

(***************************************************************************)
(* State.                                                                  *)
(***************************************************************************)
VARIABLES
    pc,                       \* position inside Render ("idle" between calls)
    scene,                    \* the light lists the scene has handed to the
                              \* current / last Render
    camera,                   \* the transforms of the current / last Render
    m_light_buffer,           \* contents of the aggregate light constant buffer
    m_directional_lights, m_omni_lights, m_spot_lights,
    m_sm_directional_lights, m_sm_omni_lights, m_sm_spot_lights,
    m_directional_sms, m_omni_sms, m_spot_sms,
    cameras,                  \* the local vector< LightCamera > of the running
                              \* ProcessLightsWithShadowMapping
    ps_srvs, cs_srvs,         \* SRV bindings of the pixel / compute stage
    ps_cb, cs_cb,             \* constant buffer bound to SLOT_CBUFFER_LIGHTING
    thrown,                   \* the last Render left by an exception
    nb_frames,                \* number of Render calls so far
    served_max,               \* history: per category, the largest request of
                              \* the Setup steps so far that did not fail
    nb_updates                \* history: number of UpdateData calls on
                              \* m_light_buffer in the current / last Render

\* DeviceEnumeration.
VARIABLES
    de_pc,                    \* position inside Enumerate ("idle" between calls)
    de_adapters,              \* the adapters the factory enumerates in this call
    de_i,                     \* the loop variable i of Enumerate, counted from 1
    max_vram,                 \* the local max_vram of Enumerate
    m_adapter, m_output,      \* the selected adapter / output (0 is nullptr)
    m_display_modes,          \* the display modes of the selected output
    de_refs,                  \* per COM object, the references acquired and
                              \* not yet released by the DeviceEnumeration
    de_released_unheld,       \* history: a Release without a held reference
    de_result,                \* the HRESULT of the last Enumerate
    de_calls                  \* number of Enumerate calls so far

\* VariableScript.
VARIABLES
    vs_pc,                    \* position inside the constructor
    vs_file,                  \* the words of the script file
    vs_trailing,              \* whitespace follows the last word of the file
    vs_next,                  \* file position: the index of the next word
    vs_eof,                   \* the end-of-file indicator of the stream
    vs_buffer,                \* the local buffer of the constructor
    vs_read,                  \* the local read of the constructor
    m_variables,              \* the variables of the script
    vs_bufpos,                \* history: the index of the word in vs_buffer
    vs_seen,                  \* history: the words the constructor's own reads
                              \* returned, with the value of read at the read
    vs_imported               \* history: the indices of the words passed to
                              \* ImportVariable as a name

\* ProgressReporter.
VARIABLES
    pr_thread,                \* per thread: position and locals of its call
    pr_quiet,                 \* g_logging_configuration.IsQuiet()
    pr_bar_start,             \* offset of the first plus in m_buffer
    m_nb_work_total, m_nb_work_done,
    m_nb_plusses_total, m_nb_plusses_printed,
    m_current_pos,            \* offset of m_current_pos in m_buffer
    m_mutex,                  \* the thread holding the mutex (0: free)
    pr_done_returned,         \* history: a call of Done has returned
    pr_calls                  \* number of Update / Done calls so far

lbuffer_vars == << pc, scene, camera, m_light_buffer,
                   m_directional_lights, m_omni_lights, m_spot_lights,
                   m_sm_directional_lights, m_sm_omni_lights, m_sm_spot_lights,
                   m_directional_sms, m_omni_sms, m_spot_sms, cameras,
                   ps_srvs, cs_srvs, ps_cb, cs_cb, thrown, nb_frames, served_max,
                   nb_updates >>

enum_vars == << de_pc, de_adapters, de_i, max_vram, m_adapter, m_output,
                m_display_modes, de_refs, de_released_unheld, de_result, de_calls >>

script_vars == << vs_pc, vs_file, vs_trailing, vs_next, vs_eof, vs_buffer, vs_read,
                  m_variables, vs_bufpos, vs_seen, vs_imported >>

progress_vars == << pr_thread, pr_quiet, pr_bar_start, m_nb_work_total, m_nb_work_done,
                    m_nb_plusses_total, m_nb_plusses_printed, m_current_pos, m_mutex,
                    pr_done_returned, pr_calls >>

vars == << lbuffer_vars, enum_vars, script_vars, progress_vars >>

\* The COM objects of an enumeration.
MaxAdapters == 2

Objects ==
    { << "factory", 0 >> } \cup { << "adapter", k >> : k \in 1..MaxAdapters }
                          \cup { << "output", k >> : k \in 1..MaxAdapters }

Threads == 1..2

\* No DeviceEnumeration::Enumerate has been called.
EnumIdle ==
    /\ de_pc = "idle"
    /\ de_adapters = << >>
    /\ de_i = 0
    /\ max_vram = 0
    /\ m_adapter = 0
    /\ m_output = 0
    /\ m_display_modes = << >>
    /\ de_refs = [o \in Objects |-> 0]
    /\ de_released_unheld = FALSE
    /\ de_result = "none"
    /\ de_calls = 0

\* No VariableScript has been constructed.
ScriptIdle ==
    /\ vs_pc = "idle"
    /\ vs_file = << >>
    /\ vs_trailing = FALSE
    /\ vs_next = 1
    /\ vs_eof = FALSE
    /\ vs_buffer = "uninitialized"
    /\ vs_read = FALSE
    /\ m_variables = << >>
    /\ vs_bufpos = 0
    /\ vs_seen = {}
    /\ vs_imported = {}

\* No ProgressReporter has been constructed.
ProgressIdle ==
    /\ pr_thread = [t \in Threads |-> [pc |-> "unconstructed", nb_work |-> 0,
                                        plusses_needed |-> 0]]
    /\ pr_quiet = FALSE
    /\ pr_bar_start = 0
    /\ m_nb_work_total = 0
    /\ m_nb_work_done = 0
    /\ m_nb_plusses_total = 0
    /\ m_nb_plusses_printed = 0
    /\ m_current_pos = 0
    /\ m_mutex = 0
    /\ pr_done_returned = FALSE
    /\ pr_calls = 0

lights_vars == << m_directional_lights, m_omni_lights, m_spot_lights,
                  m_sm_directional_lights, m_sm_omni_lights, m_sm_spot_lights >>

sms_vars == << m_directional_sms, m_omni_sms, m_spot_sms >>

bind_vars == << ps_srvs, cs_srvs, ps_cb, cs_cb >>

Categories == {"directional", "omni", "spot"}

Max(a, b) == IF a >= b THEN a ELSE b

\* LBufferPass::LBufferPass.
Init_zero ==
    /\ pc = "idle"
    /\ scene = EmptyScene
    /\ camera = "origin"
    /\ m_light_buffer = [m_buffer |-> << "light_buffer", 0 >>, m_Ia |-> 0, m_fog_color |-> 0,
                         m_fog_distance_falloff_start |-> 0,
                         m_fog_distance_falloff_inv_range |-> Reciprocal(1),
                         m_nb_directional_lights |-> 0, m_nb_omni_lights |-> 0,
                         m_nb_spot_lights |-> 0, m_nb_sm_directional_lights |-> 0,
                         m_nb_sm_omni_lights |-> 0, m_nb_sm_spot_lights |-> 0]
    /\ m_directional_lights = StructuredBuffer(<< "directional_lights", 0 >>, 3)
    /\ m_omni_lights = StructuredBuffer(<< "omni_lights", 0 >>, 32)
    /\ m_spot_lights = StructuredBuffer(<< "spot_lights", 0 >>, 32)
    /\ m_sm_directional_lights = StructuredBuffer(<< "sm_directional_lights", 0 >>, 1)
    /\ m_sm_omni_lights = StructuredBuffer(<< "sm_omni_lights", 0 >>, 1)
    /\ m_sm_spot_lights = StructuredBuffer(<< "sm_spot_lights", 0 >>, 0)
    /\ m_directional_sms = ShadowMapBuffer(<< "directional_sms", 0 >>, 1)
    /\ m_omni_sms = ShadowCubeMapBuffer(<< "omni_sms", 0 >>, 1)
    /\ m_spot_sms = ShadowMapBuffer(<< "spot_sms", 0 >>, 1)
    /\ cameras = <<>>
    /\ ps_srvs = [slot \in SRVSlots |-> NullSRV]
    /\ cs_srvs = [slot \in SRVSlots |-> NullSRV]
    /\ ps_cb = NullSRV
    /\ cs_cb = NullSRV
    /\ thrown = FALSE
    /\ nb_frames = 0
    /\ served_max = [c \in Categories |-> 0]
    /\ nb_updates = 0
    /\ EnumIdle
    /\ ScriptIdle
    /\ ProgressIdle

Init ==
    /\ pc = "idle"
    /\ scene = EmptyScene
    /\ camera = "origin"
    /\ m_light_buffer = [m_buffer |-> << "light_buffer", 0 >>, m_Ia |-> 0, m_fog_color |-> 0,
                         m_fog_distance_falloff_start |-> 0,
                         m_fog_distance_falloff_inv_range |-> Reciprocal(1),
                         m_nb_directional_lights |-> 0, m_nb_omni_lights |-> 0,
                         m_nb_spot_lights |-> 0, m_nb_sm_directional_lights |-> 0,
                         m_nb_sm_omni_lights |-> 0, m_nb_sm_spot_lights |-> 0]
    /\ m_directional_lights = StructuredBuffer(<< "directional_lights", 0 >>, 3)
    /\ m_omni_lights = StructuredBuffer(<< "omni_lights", 0 >>, 32)
    /\ m_spot_lights = StructuredBuffer(<< "spot_lights", 0 >>, 32)
    /\ m_sm_directional_lights = StructuredBuffer(<< "sm_directional_lights", 0 >>, 1)
    /\ m_sm_omni_lights = StructuredBuffer(<< "sm_omni_lights", 0 >>, 1)
    /\ m_sm_spot_lights = StructuredBuffer(<< "sm_spot_lights", 0 >>, 1)
    /\ m_directional_sms = ShadowMapBuffer(<< "directional_sms", 0 >>, 1)
    /\ m_omni_sms = ShadowCubeMapBuffer(<< "omni_sms", 0 >>, 1)
    /\ m_spot_sms = ShadowMapBuffer(<< "spot_sms", 0 >>, 1)
    /\ cameras = <<>>
    /\ ps_srvs = [slot \in SRVSlots |-> NullSRV]
    /\ cs_srvs = [slot \in SRVSlots |-> NullSRV]
    /\ ps_cb = NullSRV
    /\ cs_cb = NullSRV
    /\ thrown = FALSE
    /\ nb_frames = 0
    /\ served_max = [c \in Categories |-> 0]
    /\ nb_updates = 0
    /\ EnumIdle
    /\ ScriptIdle
    /\ ProgressIdle

(***************************************************************************)
(* LBufferPass::Render, one action per statement of its body.              *)
(***************************************************************************)
\* The call Render(scene, world_to_projection, world_to_view, view_to_world).
RenderBegin ==
    /\ pc = "idle"
    /\ nb_frames < MaxFrames
    /\ nb_frames' = nb_frames + 1
    /\ scene' = EmptyScene
    /\ camera' \in Cameras
    /\ pc' = "ProcessLights_directional"
    /\ thrown' = FALSE
    /\ nb_updates' = 0
    /\ UNCHANGED << m_light_buffer, lights_vars, sms_vars, cameras, bind_vars,
                    served_max >>
    /\ UNCHANGED << enum_vars, script_vars, progress_vars >>

Render_ProcessDirectionalLights_append ==
    /\ pc = "ProcessLights_directional"
    /\ \E lights \in ListsFor(DirectionalLightNodes, scene.sm_directional, scene) :
        /\ scene' = [scene EXCEPT !.directional = lights]
        /\ LET buffer == m_directional_lights.data
                            \o ProcessDirectionalLights(lights, Camera(camera).world_to_view)
           IN  m_directional_lights' = UpdateData(m_directional_lights, buffer)
    /\ pc' = "ProcessLights_omni"
    /\ UNCHANGED << camera, m_light_buffer, m_omni_lights, m_spot_lights,
                    m_sm_directional_lights, m_sm_omni_lights, m_sm_spot_lights,
                    sms_vars, cameras, bind_vars, thrown, nb_frames, served_max,
                    nb_updates >>
    /\ UNCHANGED << enum_vars, script_vars, progress_vars >>

Render_ProcessDirectionalLights ==
    /\ pc = "ProcessLights_directional"
    /\ \E lights \in ListsFor(DirectionalLightNodes, scene.sm_directional, scene) :
        /\ scene' = [scene EXCEPT !.directional = lights]
        /\ LET buffer == ProcessDirectionalLights(lights, Camera(camera).world_to_view)
           IN  m_directional_lights' = UpdateData(m_directional_lights, buffer)
    /\ pc' = "ProcessLights_omni"
    /\ UNCHANGED << camera, m_light_buffer, m_omni_lights, m_spot_lights,
                    m_sm_directional_lights, m_sm_omni_lights, m_sm_spot_lights,
                    sms_vars, cameras, bind_vars, thrown, nb_frames, served_max,
                    nb_updates >>
    /\ UNCHANGED << enum_vars, script_vars, progress_vars >>

Render_ProcessOmniLights ==
    /\ pc = "ProcessLights_omni"
    /\ \E lights \in ListsFor(OmniLightNodes, scene.sm_omni, scene) :
        /\ scene' = [scene EXCEPT !.omni = lights]
        /\ LET buffer == ProcessOmniLights(lights, Camera(camera).world_to_projection,
                                           Camera(camera).world_to_view)
           IN  m_omni_lights' = UpdateData(m_omni_lights, buffer)
    /\ pc' = "ProcessLights_spot"
    /\ UNCHANGED << camera, m_light_buffer, m_directional_lights, m_spot_lights,
                    m_sm_directional_lights, m_sm_omni_lights, m_sm_spot_lights,
                    sms_vars, cameras, bind_vars, thrown, nb_frames, served_max,
                    nb_updates >>
    /\ UNCHANGED << enum_vars, script_vars, progress_vars >>

Render_ProcessSpotLights_update ==
    /\ pc = "ProcessLights_spot"
    /\ \E lights \in ListsFor(SpotLightNodes, scene.sm_spot, scene) :
        /\ scene' = [scene EXCEPT !.spot = lights]
        /\ LET buffer == ProcessSpotLights(lights, Camera(camera).world_to_projection,
                                           Camera(camera).world_to_view)
           IN  m_spot_lights' = UpdateData(m_spot_lights, buffer)
    /\ m_light_buffer' = [m_light_buffer EXCEPT
                              !.m_nb_directional_lights = size(m_directional_lights),
                              !.m_nb_omni_lights = size(m_omni_lights)]
    /\ nb_updates' = nb_updates + 1
    /\ pc' = "UnbindSMSs"
    /\ UNCHANGED << camera, m_directional_lights, m_omni_lights,
                    m_sm_directional_lights, m_sm_omni_lights, m_sm_spot_lights,
                    sms_vars, cameras, bind_vars, thrown, nb_frames, served_max >>
    /\ UNCHANGED << enum_vars, script_vars, progress_vars >>

Render_ProcessSpotLights ==
    /\ pc = "ProcessLights_spot"
    /\ \E lights \in ListsFor(SpotLightNodes, scene.sm_spot, scene) :
        /\ scene' = [scene EXCEPT !.spot = lights]
        /\ LET buffer == ProcessSpotLights(lights, Camera(camera).world_to_projection,
                                           Camera(camera).world_to_view)
           IN  m_spot_lights' = UpdateData(m_spot_lights, buffer)
    /\ pc' = "UnbindSMSs"
    /\ UNCHANGED << camera, m_light_buffer, m_directional_lights, m_omni_lights,
                    m_sm_directional_lights, m_sm_omni_lights, m_sm_spot_lights,
                    sms_vars, cameras, bind_vars, thrown, nb_frames, served_max,
                    nb_updates >>
    /\ UNCHANGED << enum_vars, script_vars, progress_vars >>

\* LBufferPass::UnbindSMSs.
UnbindSMSs_fromstart ==
    LET srvs == << NullSRV, NullSRV, NullSRV >>
    IN  /\ ps_srvs' = BindSRVs(ps_srvs, SLOT_SRV_LIGHTS_START, srvs)
        /\ cs_srvs' = BindSRVs(cs_srvs, SLOT_SRV_LIGHTS_START, srvs)

UnbindSMSs ==
    LET srvs == << NullSRV, NullSRV, NullSRV >>
    IN  /\ ps_srvs' = BindSRVs(ps_srvs, SLOT_SRV_SHADOW_MAPS_START, srvs)
        /\ cs_srvs' = BindSRVs(cs_srvs, SLOT_SRV_SHADOW_MAPS_START, srvs)

Render_UnbindSMSs_skip ==
    /\ pc = "UnbindSMSs"
    /\ pc' = "ProcessLightsWithShadowMapping_directional"
    /\ UNCHANGED << scene, camera, m_light_buffer, lights_vars, sms_vars, cameras,
                    bind_vars, thrown, nb_frames, served_max,
                    nb_updates >>
    /\ UNCHANGED << enum_vars, script_vars, progress_vars >>

Render_UnbindSMSs ==
    /\ pc = "UnbindSMSs"
    /\ UnbindSMSs
    /\ pc' = "ProcessLightsWithShadowMapping_directional"
    /\ UNCHANGED << scene, camera, m_light_buffer, lights_vars, sms_vars, cameras,
                    ps_cb, cs_cb, thrown, nb_frames, served_max,
                    nb_updates >>
    /\ UNCHANGED << enum_vars, script_vars, progress_vars >>

\* ProcessLightsWithShadowMapping(directional) up to the UpdateData call.
Render_ProcessSMDirectionalLights ==
    /\ pc = "ProcessLightsWithShadowMapping_directional"
    /\ \E lights \in ListsFor(DirectionalLightNodes, scene.directional, scene) :
        /\ scene' = [scene EXCEPT !.sm_directional = lights]
        /\ LET r == ProcessSMDirectionalLights(lights, Camera(camera).world_to_view,
                                               Camera(camera).view_to_world)
           IN  /\ m_sm_directional_lights' = UpdateData(m_sm_directional_lights, r.buffer)
               /\ cameras' = r.cameras
    /\ pc' = "SetupDirectionalShadowMaps"
    /\ UNCHANGED << camera, m_light_buffer, m_directional_lights, m_omni_lights,
                    m_spot_lights, m_sm_omni_lights, m_sm_spot_lights,
                    sms_vars, bind_vars, thrown, nb_frames, served_max,
                    nb_updates >>
    /\ UNCHANGED << enum_vars, script_vars, progress_vars >>

\* ProcessLightsWithShadowMapping(omni) up to the UpdateData call.
Render_ProcessSMOmniLights ==
    /\ pc = "ProcessLightsWithShadowMapping_omni"
    /\ \E lights \in ListsFor(OmniLightNodes, scene.omni, scene) :
        /\ scene' = [scene EXCEPT !.sm_omni = lights]
        /\ LET r == ProcessSMOmniLights(lights, Camera(camera).world_to_projection,
                                        Camera(camera).world_to_view, Camera(camera).view_to_world)
           IN  /\ m_sm_omni_lights' = UpdateData(m_sm_omni_lights, r.buffer)
               /\ cameras' = r.cameras
    /\ pc' = "SetupOmniShadowMaps"
    /\ UNCHANGED << camera, m_light_buffer, m_directional_lights, m_omni_lights,
                    m_spot_lights, m_sm_directional_lights, m_sm_spot_lights,
                    sms_vars, bind_vars, thrown, nb_frames, served_max,
                    nb_updates >>
    /\ UNCHANGED << enum_vars, script_vars, progress_vars >>

\* ProcessLightsWithShadowMapping(spot) up to the UpdateData call.
Render_ProcessSMSpotLights ==
    /\ pc = "ProcessLightsWithShadowMapping_spot"
    /\ \E lights \in ListsFor(SpotLightNodes, scene.spot, scene) :
        /\ scene' = [scene EXCEPT !.sm_spot = lights]
        /\ LET r == ProcessSMSpotLights(lights, Camera(camera).world_to_projection,
                                        Camera(camera).world_to_view, Camera(camera).view_to_world)
           IN  /\ m_sm_spot_lights' = UpdateData(m_sm_spot_lights, r.buffer)
               /\ cameras' = r.cameras
    /\ pc' = "SetupSpotShadowMaps"
    /\ UNCHANGED << camera, m_light_buffer, m_directional_lights, m_omni_lights,
                    m_spot_lights, m_sm_directional_lights, m_sm_omni_lights,
                    sms_vars, bind_vars, thrown, nb_frames, served_max,
                    nb_updates >>
    /\ UNCHANGED << enum_vars, script_vars, progress_vars >>

(***************************************************************************)
(* The shadow-map buffers: Setup*ShadowMaps.                               *)
(***************************************************************************)
GetNumberOfDirectionalLightsWithShadowMapping == size(m_sm_directional_lights)

GetNumberOfOmniLightsWithShadowMapping == size(m_sm_omni_lights)

GetNumberOfSpotLightsWithShadowMapping == size(m_sm_spot_lights)

\* The test of Setup*ShadowMaps: the buffer is replaced when fewer shadow
\* maps are available than requested.
MustReplace_fewer(nb_available, nb_requested) == nb_available + 1 < nb_requested

MustReplace_unequal(nb_available, nb_requested) == nb_available # nb_requested

MustReplace_orequal(nb_available, nb_requested) == nb_available <= nb_requested

MustReplace(nb_available, nb_requested) == nb_available < nb_requested

\* The number of shadow (cube) maps the replacement is constructed with.
ReplacementSize_onemore(nb_available, nb_requested) == nb_requested + 1

ReplacementSize(nb_available, nb_requested) == nb_requested

\* m_sms = MakeUnique< T >(n): the new buffer is constructed first and then
\* move-assigned; when the constructor throws, the member keeps the old one.
MakeUniqueAndAssign_resetfirst(old, new, constructed) ==
    IF constructed THEN new ELSE [id |-> old.id, m_dsvs |-> <<>>, m_srv |-> NullSRV]

MakeUniqueAndAssign_partial(old, new, constructed) ==
    IF constructed THEN new ELSE [new EXCEPT !.m_srv = NullSRV]

MakeUniqueAndAssign(old, new, constructed) ==
    IF constructed THEN new ELSE old

\* History of the requests of one category.
Record(c, nb_requested, failed) ==
    served_max' = [served_max EXCEPT ![c] = IF failed THEN @ ELSE Max(@, nb_requested)]

\* SetupDirectionalShadowMaps, the construction (if any) succeeding.
Render_SetupDirectionalShadowMaps ==
    /\ pc = "SetupDirectionalShadowMaps"
    /\ LET nb_requested == GetNumberOfDirectionalLightsWithShadowMapping
           nb_available == GetNumberOfShadowMaps(m_directional_sms)
       IN  /\ IF MustReplace(nb_available, nb_requested)
              THEN m_directional_sms' = MakeUniqueAndAssign(
                       m_directional_sms,
                       ShadowMapBuffer(NextObject(m_directional_sms.id),
                           ReplacementSize(nb_available, nb_requested)),
                       TRUE)
              ELSE UNCHANGED m_directional_sms
           /\ Record("directional", nb_requested, FALSE)
    /\ cameras' = <<>>
    /\ pc' = "ProcessLightsWithShadowMapping_omni"
    /\ UNCHANGED << scene, camera, m_light_buffer, lights_vars, m_omni_sms, m_spot_sms,
                    bind_vars, thrown, nb_frames,
                    nb_updates >>
    /\ UNCHANGED << enum_vars, script_vars, progress_vars >>

\* SetupDirectionalShadowMaps, the constructor of ShadowMapBuffer throwing:
\* the exception leaves Render before the assignment to m_directional_sms.
Render_SetupDirectionalShadowMaps_Throw ==
    /\ pc = "SetupDirectionalShadowMaps"
    /\ LET nb_requested == GetNumberOfDirectionalLightsWithShadowMapping
           nb_available == GetNumberOfShadowMaps(m_directional_sms)
       IN  /\ MustReplace(nb_available, nb_requested)
           /\ m_directional_sms' = MakeUniqueAndAssign(
                  m_directional_sms,
                  ShadowMapBuffer(NextObject(m_directional_sms.id),
                      ReplacementSize(nb_available, nb_requested)),
                  FALSE)
           /\ Record("directional", nb_requested, TRUE)
    /\ cameras' = <<>>
    /\ pc' = "idle"
    /\ thrown' = TRUE
    /\ UNCHANGED << scene, camera, m_light_buffer, lights_vars, m_omni_sms, m_spot_sms,
                    bind_vars, nb_frames, nb_updates >>
    /\ UNCHANGED << enum_vars, script_vars, progress_vars >>

\* SetupOmniShadowMaps, the construction (if any) succeeding.
Render_SetupOmniShadowMaps ==
    /\ pc = "SetupOmniShadowMaps"
    /\ LET nb_requested == GetNumberOfOmniLightsWithShadowMapping
           nb_available == GetNumberOfShadowCubeMaps(m_omni_sms)
       IN  /\ IF MustReplace(nb_available, nb_requested)
              THEN m_omni_sms' = MakeUniqueAndAssign(
                       m_omni_sms,
                       ShadowCubeMapBuffer(NextObject(m_omni_sms.id),
                           ReplacementSize(nb_available, nb_requested)),
                       TRUE)
              ELSE UNCHANGED m_omni_sms
           /\ Record("omni", nb_requested, FALSE)
    /\ cameras' = <<>>
    /\ pc' = "ProcessLightsWithShadowMapping_spot"
    /\ UNCHANGED << scene, camera, m_light_buffer, lights_vars, m_directional_sms,
                    m_spot_sms, bind_vars, thrown, nb_frames,
                    nb_updates >>
    /\ UNCHANGED << enum_vars, script_vars, progress_vars >>

\* SetupOmniShadowMaps, the constructor of ShadowCubeMapBuffer throwing.
Render_SetupOmniShadowMaps_Throw ==
    /\ pc = "SetupOmniShadowMaps"
    /\ LET nb_requested == GetNumberOfOmniLightsWithShadowMapping
           nb_available == GetNumberOfShadowCubeMaps(m_omni_sms)
       IN  /\ MustReplace(nb_available, nb_requested)
           /\ m_omni_sms' = MakeUniqueAndAssign(
                  m_omni_sms,
                  ShadowCubeMapBuffer(NextObject(m_omni_sms.id),
                      ReplacementSize(nb_available, nb_requested)),
                  FALSE)
           /\ Record("omni", nb_requested, TRUE)
    /\ cameras' = <<>>
    /\ pc' = "idle"
    /\ thrown' = TRUE
    /\ UNCHANGED << scene, camera, m_light_buffer, lights_vars, m_directional_sms, m_spot_sms,
                    bind_vars, nb_frames, nb_updates >>
    /\ UNCHANGED << enum_vars, script_vars, progress_vars >>

\* SetupSpotShadowMaps, the construction (if any) succeeding.
Render_SetupSpotShadowMaps_coupled ==
    /\ pc = "SetupSpotShadowMaps"
    /\ LET nb_requested == GetNumberOfSpotLightsWithShadowMapping
           nb_available == GetNumberOfShadowMaps(m_spot_sms)
       IN  /\ IF MustReplace(nb_available, nb_requested)
              THEN /\ m_spot_sms' = MakeUniqueAndAssign(
                           m_spot_sms,
                           ShadowMapBuffer(NextObject(m_spot_sms.id),
                               ReplacementSize(nb_available, nb_requested)),
                           TRUE)
                   /\ m_directional_sms' =
                           ShadowMapBuffer(NextObject(m_directional_sms.id),
                               ReplacementSize(nb_available, nb_requested))
              ELSE UNCHANGED << m_spot_sms, m_directional_sms >>
           /\ Record("spot", nb_requested, FALSE)
    /\ cameras' = <<>>
    /\ pc' = "ProcessLightsData"
    /\ UNCHANGED << scene, camera, m_light_buffer, lights_vars,
                    m_omni_sms, bind_vars, thrown, nb_frames,
                    nb_updates >>
    /\ UNCHANGED << enum_vars, script_vars, progress_vars >>

Render_SetupSpotShadowMaps ==
    /\ pc = "SetupSpotShadowMaps"
    /\ LET nb_requested == GetNumberOfSpotLightsWithShadowMapping
           nb_available == GetNumberOfShadowMaps(m_spot_sms)
       IN  /\ IF MustReplace(nb_available, nb_requested)
              THEN m_spot_sms' = MakeUniqueAndAssign(
                       m_spot_sms,
                       ShadowMapBuffer(NextObject(m_spot_sms.id),
                           ReplacementSize(nb_available, nb_requested)),
                       TRUE)
              ELSE UNCHANGED m_spot_sms
           /\ Record("spot", nb_requested, FALSE)
    /\ cameras' = <<>>
    /\ pc' = "ProcessLightsData"
    /\ UNCHANGED << scene, camera, m_light_buffer, lights_vars, m_directional_sms,
                    m_omni_sms, bind_vars, thrown, nb_frames,
                    nb_updates >>
    /\ UNCHANGED << enum_vars, script_vars, progress_vars >>

\* SetupSpotShadowMaps, the constructor of ShadowMapBuffer throwing.
Render_SetupSpotShadowMaps_Throw ==
    /\ pc = "SetupSpotShadowMaps"
    /\ LET nb_requested == GetNumberOfSpotLightsWithShadowMapping
           nb_available == GetNumberOfShadowMaps(m_spot_sms)
       IN  /\ MustReplace(nb_available, nb_requested)
           /\ m_spot_sms' = MakeUniqueAndAssign(
                  m_spot_sms,
                  ShadowMapBuffer(NextObject(m_spot_sms.id),
                      ReplacementSize(nb_available, nb_requested)),
                  FALSE)
           /\ Record("spot", nb_requested, TRUE)
    /\ cameras' = <<>>
    /\ pc' = "idle"
    /\ thrown' = TRUE
    /\ UNCHANGED << scene, camera, m_light_buffer, lights_vars, m_directional_sms, m_omni_sms,
                    bind_vars, nb_frames, nb_updates >>
    /\ UNCHANGED << enum_vars, script_vars, progress_vars >>

(***************************************************************************)
(* The aggregate light buffer and the binding of the LBuffer.              *)
(***************************************************************************)
\* LBufferPass::ProcessLightsData: the LightBuffer uploaded to m_light_buffer.
LightBuffer_precull(sc) ==
    [m_buffer |-> m_light_buffer.m_buffer,
     m_Ia |-> sc.ambient,
     m_fog_color |-> sc.fog_color,
     m_fog_distance_falloff_start |-> sc.fog_start,
     m_fog_distance_falloff_inv_range |-> Reciprocal(sc.fog_range),
     m_nb_directional_lights |-> Len(sc.directional),
     m_nb_omni_lights |-> Len(sc.omni),
     m_nb_spot_lights |-> Len(sc.spot),
     m_nb_sm_directional_lights |-> Len(sc.sm_directional),
     m_nb_sm_omni_lights |-> Len(sc.sm_omni),
     m_nb_sm_spot_lights |-> Len(sc.sm_spot)]

LightBuffer(sc) ==
    [m_buffer |-> m_light_buffer.m_buffer,
     m_Ia |-> sc.ambient,
     m_fog_color |-> sc.fog_color,
     m_fog_distance_falloff_start |-> sc.fog_start,
     m_fog_distance_falloff_inv_range |-> Reciprocal(sc.fog_range),
     m_nb_directional_lights |-> size(m_directional_lights),
     m_nb_omni_lights |-> size(m_omni_lights),
     m_nb_spot_lights |-> size(m_spot_lights),
     m_nb_sm_directional_lights |-> size(m_sm_directional_lights),
     m_nb_sm_omni_lights |-> size(m_sm_omni_lights),
     m_nb_sm_spot_lights |-> size(m_sm_spot_lights)]

Render_ProcessLightsData ==
    /\ pc = "ProcessLightsData"
    /\ m_light_buffer' = LightBuffer(scene)
    /\ nb_updates' = nb_updates + 1
    /\ pc' = "BindLBuffer"
    /\ UNCHANGED << scene, camera, lights_vars, sms_vars, cameras, bind_vars,
                    thrown, nb_frames, served_max >>
    /\ UNCHANGED << enum_vars, script_vars, progress_vars >>

\* LBufferPass::BindLBuffer.
BindLBuffer_swapped ==
    LET srvs == << m_directional_lights.m_buffer, m_omni_lights.m_buffer,
                   m_spot_lights.m_buffer, m_sm_directional_lights.m_buffer,
                   m_sm_omni_lights.m_buffer, m_sm_spot_lights.m_buffer,
                   m_directional_sms.m_srv, m_omni_sms.m_srv, m_spot_sms.m_srv >>
        swapped == << m_directional_lights.m_buffer, m_spot_lights.m_buffer,
                      m_omni_lights.m_buffer, m_sm_directional_lights.m_buffer,
                      m_sm_omni_lights.m_buffer, m_sm_spot_lights.m_buffer,
                      m_directional_sms.m_srv, m_omni_sms.m_srv, m_spot_sms.m_srv >>
    IN  /\ ps_cb' = m_light_buffer.m_buffer
        /\ cs_cb' = m_light_buffer.m_buffer
        /\ ps_srvs' = BindSRVs(ps_srvs, SLOT_SRV_LIGHTS_START, srvs)
        /\ cs_srvs' = BindSRVs(cs_srvs, SLOT_SRV_LIGHTS_START, swapped)

BindLBuffer ==
    LET srvs == << m_directional_lights.m_buffer, m_omni_lights.m_buffer,
                   m_spot_lights.m_buffer, m_sm_directional_lights.m_buffer,
                   m_sm_omni_lights.m_buffer, m_sm_spot_lights.m_buffer,
                   m_directional_sms.m_srv, m_omni_sms.m_srv, m_spot_sms.m_srv >>
    IN  /\ ps_cb' = m_light_buffer.m_buffer
        /\ cs_cb' = m_light_buffer.m_buffer
        /\ ps_srvs' = BindSRVs(ps_srvs, SLOT_SRV_LIGHTS_START, srvs)
        /\ cs_srvs' = BindSRVs(cs_srvs, SLOT_SRV_LIGHTS_START, srvs)

Render_BindLBuffer_clear ==
    /\ pc = "BindLBuffer"
    /\ BindLBuffer
    /\ m_sm_omni_lights' = UpdateData(m_sm_omni_lights, <<>>)
    /\ pc' = "idle"
    /\ UNCHANGED << scene, camera, m_light_buffer, m_directional_lights, m_omni_lights,
                    m_spot_lights, m_sm_directional_lights, m_sm_spot_lights,
                    sms_vars, cameras, thrown, nb_frames, served_max,
                    nb_updates >>
    /\ UNCHANGED << enum_vars, script_vars, progress_vars >>

Render_BindLBuffer ==
    /\ pc = "BindLBuffer"
    /\ BindLBuffer
    /\ pc' = "idle"
    /\ UNCHANGED << scene, camera, m_light_buffer, lights_vars, sms_vars, cameras,
                    thrown, nb_frames, served_max,
                    nb_updates >>
    /\ UNCHANGED << enum_vars, script_vars, progress_vars >>

Next ==
    \/ RenderBegin
    \/ Render_ProcessDirectionalLights
    \/ Render_ProcessOmniLights
    \/ Render_ProcessSpotLights
    \/ Render_UnbindSMSs
    \/ Render_ProcessSMDirectionalLights
    \/ Render_SetupDirectionalShadowMaps
    \/ Render_SetupDirectionalShadowMaps_Throw
    \/ Render_ProcessSMOmniLights
    \/ Render_SetupOmniShadowMaps
    \/ Render_SetupOmniShadowMaps_Throw
    \/ Render_ProcessSMSpotLights
    \/ Render_SetupSpotShadowMaps
    \/ Render_SetupSpotShadowMaps_Throw
    \/ Render_ProcessLightsData
    \/ Render_BindLBuffer

Spec == Init /\ [][Next]_vars

(***************************************************************************)
(* Properties.                                                             *)
(***************************************************************************)
\* The shadow-map capacity of a category.
Capacity(c) ==
    CASE c = "directional" -> GetNumberOfShadowMaps(m_directional_sms)
      [] c = "omni" -> GetNumberOfShadowCubeMaps(m_omni_sms)
      [] c = "spot" -> GetNumberOfShadowMaps(m_spot_sms)

\* The shadow-map buffer, the packed shadow light buffer and the count field
\* of a category.
ShadowMaps(c) ==
    CASE c = "directional" -> m_directional_sms
      [] c = "omni" -> m_omni_sms
      [] c = "spot" -> m_spot_sms

ShadowLights(c) ==
    CASE c = "directional" -> m_sm_directional_lights
      [] c = "omni" -> m_sm_omni_lights
      [] c = "spot" -> m_sm_spot_lights

ShadowCount(c) ==
    CASE c = "directional" -> m_light_buffer.m_nb_sm_directional_lights
      [] c = "omni" -> m_light_buffer.m_nb_sm_omni_lights
      [] c = "spot" -> m_light_buffer.m_nb_sm_spot_lights

\* The position of Render at the Setup step of a category, and after it.
SetupPc(c) ==
    CASE c = "directional" -> "SetupDirectionalShadowMaps"
      [] c = "omni" -> "SetupOmniShadowMaps"
      [] c = "spot" -> "SetupSpotShadowMaps"

AfterSetupPc(c) ==
    CASE c = "directional" -> "ProcessLightsWithShadowMapping_omni"
      [] c = "omni" -> "ProcessLightsWithShadowMapping_spot"
      [] c = "spot" -> "ProcessLightsData"

\* A step of Render that is the Setup step of category c.
SetupStep(c) == pc = SetupPc(c) /\ pc' # pc

\* The Setup step of category c left Render by an exception.
SetupFailed(c) == pc = SetupPc(c) /\ pc' = "idle"

\* The last Render call returned normally.
RenderCompleted == pc = "idle" /\ nb_frames > 0 /\ ~thrown

\* C1 as claimed: once the Setup step of a category has run, the capacity
\* of the category is the largest count requested so far (of the steps whose
\* construction did not fail, which by C5 change nothing).
C1_CapacityIsMaxRequest ==
    \A c \in Categories : pc = AfterSetupPc(c) => Capacity(c) = served_max[c]

\* C1 amended: a fresh pass holds one shadow map per category, so after any
\* sequence of Setup steps the capacity is the largest of 1 and the counts
\* requested by the steps that did not fail; and a step replaces the buffer
\* object only if its request exceeds all of these.
C1_CapacityIsMaxOfOneAndRequests ==
    /\ [](\A c \in Categories : Capacity(c) = Max(1, served_max[c]))
    /\ [][\A c \in Categories :
            ShadowMaps(c)' # ShadowMaps(c)
                => /\ SetupStep(c)
                   /\ size(ShadowLights(c)) > Max(1, served_max[c])]_vars

\* C1 witness: the omni capacity grew to 2 in the first frame and the second
\* frame requested 1.
C1_Witness ==
    /\ nb_frames = 2
    /\ pc = AfterSetupPc("omni")
    /\ size(m_sm_omni_lights) = 1
    /\ Capacity("omni") = 2

\* C2: no step of any Render call decreases the shadow-map capacity of a
\* category, whatever the number of shadow-casting lights of the frame.
C2_CapacityNeverDecreases ==
    [][\A c \in Categories : Capacity(c)' >= Capacity(c)]_vars

\* C2 witness: a completed second frame without directional shadow casters
\* while the directional capacity is 2.
C2_Witness ==
    /\ RenderCompleted
    /\ nb_frames = 2
    /\ Capacity("directional") = 2
    /\ m_light_buffer.m_nb_sm_directional_lights = 0

\* C3: a Setup step whose request does not exceed the capacity changes
\* nothing of the shadow-map buffer: same object, same DSVs, same SRV.
C3_SetupWithinCapacityIsNoOp ==
    [][\A c \in Categories :
        (SetupStep(c) /\ size(ShadowLights(c)) <= Capacity(c))
            => ShadowMaps(c)' = ShadowMaps(c)]_vars

\* C3 witness: the spot Setup step has run with 1 shadow caster at capacity
\* 2, the buffer being the one created when the capacity grew.
C3_Witness ==
    /\ nb_frames = 2
    /\ pc = AfterSetupPc("spot")
    /\ size(m_sm_spot_lights) = 1
    /\ Capacity("spot") = 2
    /\ m_spot_sms.id = << "spot_sms", 1 >>

\* C4: a Setup step whose request exceeds the capacity and whose construction
\* succeeds installs a new buffer with exactly the requested number of shadow
\* maps: that many DSVs, six times that many for the cube maps; the number of
\* DSVs of the cube-map buffer is always a multiple of 6.
C4_ReplacementHasRequestedSize ==
    /\ [](Len(m_omni_sms.m_dsvs) % 6 = 0)
    /\ [][\A c \in Categories :
            (SetupStep(c) /\ ~SetupFailed(c) /\ size(ShadowLights(c)) > Capacity(c))
                => /\ Capacity(c)' = size(ShadowLights(c))
                   /\ ShadowMaps(c)'.id # ShadowMaps(c).id
                   /\ Len(ShadowMaps(c)'.m_dsvs) =
                          IF c = "omni" THEN 6 * size(ShadowLights(c))
                          ELSE size(ShadowLights(c))]_vars

\* C4 witness: the omni Setup step has just replaced the buffer by one with
\* 2 cube maps, 12 DSVs.
C4_Witness ==
    /\ pc = AfterSetupPc("omni")
    /\ size(m_sm_omni_lights) = 2
    /\ m_omni_sms.id = << "omni_sms", 1 >>
    /\ Len(m_omni_sms.m_dsvs) = 12

\* C5: when the construction of the replacement fails, the shadow-map buffer
\* of the category is exactly as before the step and Render is left with the
\* failure raised.
C5_FailedConstructionKeepsBuffer ==
    [][\A c \in Categories :
        SetupFailed(c) => (ShadowMaps(c)' = ShadowMaps(c) /\ thrown')]_vars

\* C5 witness: Render was left by the failure to construct a directional
\* buffer for 2 shadow casters; the capacity is still 1.
C5_Witness ==
    /\ pc = "idle"
    /\ thrown
    /\ size(m_sm_directional_lights) = 2
    /\ Capacity("directional") = 1
    /\ Len(m_directional_sms.m_dsvs) = 1

\* C6 as claimed: after a Render that failed to construct a shadow-map
\* buffer, no category exposes more shadow-casting lights (packed elements,
\* count field) than it has shadow maps.
C6_ExcessCastersDropped ==
    (pc = "idle" /\ thrown)
        => \A c \in Categories :
              /\ size(ShadowLights(c)) <= Capacity(c)
              /\ ShadowCount(c) <= Capacity(c)

\* The positions of the nodes of a list that the cull test of the frame keeps.
KeptOmni(lights) ==
    { i \in DOMAIN lights : ~CullOmni(Node(lights[i]), Camera(camera).world_to_projection) }

KeptSpot(lights) ==
    { i \in DOMAIN lights : ~CullSpot(Node(lights[i]), Camera(camera).world_to_projection) }

\* C7: after every completed Render each of the six count fields of the
\* aggregate light buffer is the number of elements packed this frame into
\* the light buffer of its category, the number of nodes of the scene list
\* that survive culling (all of them for directional lights).
C7_CountsArePackedSizes ==
    RenderCompleted =>
        /\ m_light_buffer.m_nb_directional_lights = size(m_directional_lights)
        /\ m_light_buffer.m_nb_omni_lights = size(m_omni_lights)
        /\ m_light_buffer.m_nb_spot_lights = size(m_spot_lights)
        /\ m_light_buffer.m_nb_sm_directional_lights = size(m_sm_directional_lights)
        /\ m_light_buffer.m_nb_sm_omni_lights = size(m_sm_omni_lights)
        /\ m_light_buffer.m_nb_sm_spot_lights = size(m_sm_spot_lights)
        /\ m_light_buffer.m_nb_directional_lights = Len(scene.directional)
        /\ m_light_buffer.m_nb_omni_lights = Cardinality(KeptOmni(scene.omni))
        /\ m_light_buffer.m_nb_spot_lights = Cardinality(KeptSpot(scene.spot))
        /\ m_light_buffer.m_nb_sm_directional_lights = Len(scene.sm_directional)
        /\ m_light_buffer.m_nb_sm_omni_lights = Cardinality(KeptOmni(scene.sm_omni))
        /\ m_light_buffer.m_nb_sm_spot_lights = Cardinality(KeptSpot(scene.sm_spot))

\* C7 witness: a completed Render of a scene with 2 omni lights of which one
\* was culled: the count field is 1.
C7_Witness ==
    /\ RenderCompleted
    /\ Len(scene.omni) = 2
    /\ size(m_omni_lights) = 1
    /\ m_light_buffer.m_nb_omni_lights = 1

\* C8: when ProcessLightsWithShadowMapping(omni) has packed its list, of
\* which k nodes survive culling, its LightCamera vector has exactly 6k
\* entries and the packed omni shadow light buffer exactly k.
C8_SixCamerasPerOmniLight ==
    pc = "SetupOmniShadowMaps" =>
        /\ size(m_sm_omni_lights) = Cardinality(KeptOmni(scene.sm_omni))
        /\ Len(cameras) = 6 * Cardinality(KeptOmni(scene.sm_omni))

\* C8 witness: 2 shadow-mapped omni lights, one of them culled: 6 cameras
\* and 1 packed element.
C8_Witness ==
    /\ pc = "SetupOmniShadowMaps"
    /\ Len(scene.sm_omni) = 2
    /\ size(m_sm_omni_lights) = 1
    /\ Len(cameras) = 6

\* C9: when ProcessLightsWithShadowMapping(spot) has packed its list, there
\* is exactly one LightCamera per node that survives culling, as many as
\* packed elements, and the i-th camera is the one of the i-th packed light:
\* the element's camera-view-to-light-projection matrix is the transpose of
\* view_to_world times the camera's world-to-light-projection matrix.
C9_OneCameraPerSpotLight ==
    pc = "SetupSpotShadowMaps" =>
        /\ Len(cameras) = Cardinality(KeptSpot(scene.sm_spot))
        /\ Len(cameras) = size(m_sm_spot_lights)
        /\ \A i \in 1..Len(cameras) :
              /\ i <= size(m_sm_spot_lights)
              /\ m_sm_spot_lights.data[i].m_cview_to_lprojection =
                     XMMatrixTranspose(XMMatrixMultiply(
                         Camera(camera).view_to_world, cameras[i].world_to_lprojection))

\* C9 witness: 2 shadow-mapped spotlights, one of them culled: 1 camera and
\* 1 packed element.
C9_Witness ==
    /\ pc = "SetupSpotShadowMaps"
    /\ Len(scene.sm_spot) = 2
    /\ size(m_sm_spot_lights) = 1
    /\ Len(cameras) = 1

\* The directional list / shadow-mapped directional list of the current
\* scene has been processed.
DirectionalProcessed == pc # "ProcessLights_directional"

SMDirectionalProcessed ==
    pc \notin { "ProcessLights_directional", "ProcessLights_omni", "ProcessLights_spot",
                "UnbindSMSs", "ProcessLightsWithShadowMapping_directional" }

\* C10: directional lights are never culled: once a directional list of the
\* scene is processed, shadow-mapped or not, the number of packed elements
\* is the length of the list, for every camera transform.
C10_DirectionalNeverCulled ==
    /\ DirectionalProcessed => size(m_directional_lights) = Len(scene.directional)
    /\ SMDirectionalProcessed
           => size(m_sm_directional_lights) = Len(scene.sm_directional)

\* C10 witness: under the camera that culls the omni light and the spotlight
\* at the world origin, both directional lights of the scene are packed.
C10_Witness ==
    /\ pc = "ProcessLights_omni"
    /\ camera = "right"
    /\ CullOmni(Node("O1"), Camera(camera).world_to_projection)
    /\ CullSpot(Node("S1"), Camera(camera).world_to_projection)
    /\ Len(scene.directional) = 2
    /\ size(m_directional_lights) = 2

(***************************************************************************)
(* Culling and order of the packed light buffers.                          *)
(***************************************************************************)
\* The omni / spot list of the current scene, shadow-mapped or not, has been
\* packed by the current / last Render.
OmniProcessed == pc \notin { "ProcessLights_directional", "ProcessLights_omni" }

SpotProcessed ==
    pc \notin { "ProcessLights_directional", "ProcessLights_omni", "ProcessLights_spot" }

SMOmniProcessed ==
    \/ pc \in { "SetupOmniShadowMaps", "ProcessLightsWithShadowMapping_spot",
                "SetupSpotShadowMaps", "ProcessLightsData", "BindLBuffer" }
    \/ RenderCompleted

SMSpotProcessed ==
    \/ pc \in { "SetupSpotShadowMaps", "ProcessLightsData", "BindLBuffer" }
    \/ RenderCompleted

\* The number of positions of a packed sequence that hold the element e.
Occurrences(data, e) == Cardinality({ i \in DOMAIN data : data[i] = e })

\* The packed elements of a node under the transforms of the frame.
PackedOmni(name) == OmniLightBuffer(Node(name), Camera(camera).world_to_view)

PackedSpot(name) == SpotLightBuffer(Node(name), Camera(camera).world_to_view)

PackedSMOmni(name) ==
    OmniLightWithShadowMappingBuffer(Node(name), Camera(camera).world_to_view,
                                     Camera(camera).view_to_world)

PackedSMSpot(name) ==
    SpotLightWithShadowMappingBuffer(Node(name), Camera(camera).world_to_view,
                                     Camera(camera).view_to_world)

\* C11: once an omni or spot list of the scene is packed, shadow-mapped or
\* not, a light node is in the packed buffer of its category exactly once if
\* it is in the list and ViewFrustum::Cull returns false for it, and not at
\* all otherwise; the packed length is the number of nodes of the list for
\* which Cull is false.
C11_PackedOnceIffNotCulled ==
    LET w2p == Camera(camera).world_to_projection
    IN  /\ OmniProcessed =>
              /\ size(m_omni_lights) = Cardinality(KeptOmni(scene.omni))
              /\ \A n \in OmniLightNodes :
                    Occurrences(m_omni_lights.data, PackedOmni(n)) =
                        IF n \in Range(scene.omni) /\ ~CullOmni(Node(n), w2p) THEN 1 ELSE 0
        /\ SpotProcessed =>
              /\ size(m_spot_lights) = Cardinality(KeptSpot(scene.spot))
              /\ \A n \in SpotLightNodes :
                    Occurrences(m_spot_lights.data, PackedSpot(n)) =
                        IF n \in Range(scene.spot) /\ ~CullSpot(Node(n), w2p) THEN 1 ELSE 0
        /\ SMOmniProcessed =>
              /\ size(m_sm_omni_lights) = Cardinality(KeptOmni(scene.sm_omni))
              /\ \A n \in OmniLightNodes :
                    Occurrences(m_sm_omni_lights.data, PackedSMOmni(n)) =
                        IF n \in Range(scene.sm_omni) /\ ~CullOmni(Node(n), w2p) THEN 1 ELSE 0
        /\ SMSpotProcessed =>
              /\ size(m_sm_spot_lights) = Cardinality(KeptSpot(scene.sm_spot))
              /\ \A n \in SpotLightNodes :
                    Occurrences(m_sm_spot_lights.data, PackedSMSpot(n)) =
                        IF n \in Range(scene.sm_spot) /\ ~CullSpot(Node(n), w2p) THEN 1 ELSE 0

\* C11 witness: the spot list <<S1, S2>> has been packed under the camera for
\* which Cull is true for S1 and false for S2: S2 is packed once, S1 is not.
C11_Witness ==
    /\ pc = "UnbindSMSs"
    /\ scene.spot = << "S1", "S2" >>
    /\ CullSpot(Node("S1"), Camera(camera).world_to_projection)
    /\ ~CullSpot(Node("S2"), Camera(camera).world_to_projection)
    /\ m_spot_lights.data = << PackedSpot("S2") >>

\* The position in a list of its i-th node (in list order) among those of K.
NthKept(K, i) == CHOOSE k \in K : Cardinality({ j \in K : j <= k }) = i

\* data is the sequence of the elements of the nodes of lights at the
\* positions of K, in the order of lights; elems maps a node to its packed
\* element.
IsSubsequenceAt(data, lights, K, elems) ==
    /\ Len(data) = Cardinality(K)
    /\ \A i \in 1..Len(data) : data[i] = elems[lights[NthKept(K, i)]]

PackedDirectional(name) ==
    DirectionalLightBuffer(Node(name), Camera(camera).world_to_view)

PackedSMDirectional(name) ==
    [m_light |-> DirectionalLightBuffer(Node(name), Camera(camera).world_to_view)]

\* C12: every packed light buffer holds the elements of the non-culled nodes
\* of its scene list in the order of the list: nothing is reordered.
C12_PackedInSceneOrder ==
    /\ DirectionalProcessed =>
          IsSubsequenceAt(m_directional_lights.data, scene.directional,
                          DOMAIN scene.directional,
                          [n \in DirectionalLightNodes |-> PackedDirectional(n)])
    /\ OmniProcessed =>
          IsSubsequenceAt(m_omni_lights.data, scene.omni,
                          KeptOmni(scene.omni),
                          [n \in OmniLightNodes |-> PackedOmni(n)])
    /\ SpotProcessed =>
          IsSubsequenceAt(m_spot_lights.data, scene.spot,
                          KeptSpot(scene.spot),
                          [n \in SpotLightNodes |-> PackedSpot(n)])
    /\ SMDirectionalProcessed =>
          IsSubsequenceAt(m_sm_directional_lights.data, scene.sm_directional,
                          DOMAIN scene.sm_directional,
                          [n \in DirectionalLightNodes |-> PackedSMDirectional(n)])
    /\ SMOmniProcessed =>
          IsSubsequenceAt(m_sm_omni_lights.data, scene.sm_omni,
                          KeptOmni(scene.sm_omni),
                          [n \in OmniLightNodes |-> PackedSMOmni(n)])
    /\ SMSpotProcessed =>
          IsSubsequenceAt(m_sm_spot_lights.data, scene.sm_spot,
                          KeptSpot(scene.sm_spot),
                          [n \in SpotLightNodes |-> PackedSMSpot(n)])

\* C12 witness: the omni list <<O2, O1>>, of which no node is culled, has
\* been packed: the element of O2 comes first.
C12_Witness ==
    /\ pc = "ProcessLights_spot"
    /\ scene.omni = << "O2", "O1" >>
    /\ KeptOmni(scene.omni) = {1, 2}
    /\ m_omni_lights.data = << PackedOmni("O2"), PackedOmni("O1") >>
    /\ PackedOmni("O2") # PackedOmni("O1")

(***************************************************************************)
(* The request made to the shadow-map buffers.                             *)
(***************************************************************************)
\* The number of shadow-casting lights of a category that survive culling
\* in the current frame.
KeptCount(c) ==
    CASE c = "directional" -> Len(scene.sm_directional)
      [] c = "omni" -> Cardinality(KeptOmni(scene.sm_omni))
      [] c = "spot" -> Cardinality(KeptSpot(scene.sm_spot))

\* The count Setup*ShadowMaps of a category requests.
Requested(c) ==
    CASE c = "directional" -> GetNumberOfDirectionalLightsWithShadowMapping
      [] c = "omni" -> GetNumberOfOmniLightsWithShadowMapping
      [] c = "spot" -> GetNumberOfSpotLightsWithShadowMapping

\* C13: the count a Setup step requests is the post-cull number k of
\* shadow-casting lights of its category, and a Setup step that does not
\* fail leaves the capacity at the larger of the previous capacity and k.
\* For omni lights the non-shadowed buffer then holds the non-culled nodes of
\* the non-shadowed list, the shadow-mapped buffer k elements, and the
\* LightCamera vector 6k entries.
C13_RequestIsPostCullCount ==
    /\ [](\A c \in Categories : pc = SetupPc(c) => Requested(c) = KeptCount(c))
    /\ [](pc = "SetupOmniShadowMaps" =>
              /\ size(m_omni_lights) = Cardinality(KeptOmni(scene.omni))
              /\ size(m_sm_omni_lights) = KeptCount("omni")
              /\ Len(cameras) = 6 * KeptCount("omni"))
    /\ [][\A c \in Categories :
            (SetupStep(c) /\ ~SetupFailed(c))
                => Capacity(c)' = Max(Capacity(c), KeptCount(c))]_vars

\* C13 witness: of 2 shadow-casting omni lights one was culled; the Setup
\* step requested 1 and the first buffer, of capacity 1, is still in place.
C13_Witness ==
    /\ pc = AfterSetupPc("omni")
    /\ Len(scene.sm_omni) = 2
    /\ KeptCount("omni") = 1
    /\ size(m_sm_omni_lights) = 1
    /\ Capacity("omni") = 1
    /\ m_omni_sms.id = << "omni_sms", 0 >>

(***************************************************************************)
(* Binding.                                                                *)
(***************************************************************************)
\* The 9 views of the LBuffer in the order of its slots: the three light
\* buffers, their three shadow-mapped variants, the three shadow-map SRVs.
LBufferViews ==
    [slot \in SRVSlots |->
        CASE slot = SLOT_SRV_LIGHTS_START     -> m_directional_lights.m_buffer
          [] slot = SLOT_SRV_LIGHTS_START + 1 -> m_omni_lights.m_buffer
          [] slot = SLOT_SRV_LIGHTS_START + 2 -> m_spot_lights.m_buffer
          [] slot = SLOT_SRV_LIGHTS_START + 3 -> m_sm_directional_lights.m_buffer
          [] slot = SLOT_SRV_LIGHTS_START + 4 -> m_sm_omni_lights.m_buffer
          [] slot = SLOT_SRV_LIGHTS_START + 5 -> m_sm_spot_lights.m_buffer
          [] slot = SLOT_SRV_LIGHTS_START + 6 -> m_directional_sms.m_srv
          [] slot = SLOT_SRV_LIGHTS_START + 7 -> m_omni_sms.m_srv
          [] slot = SLOT_SRV_LIGHTS_START + 8 -> m_spot_sms.m_srv]

\* A step of Render that is its BindLBuffer call.
BindStep == pc = "BindLBuffer" /\ pc' # pc

\* C14: BindLBuffer binds the 9 views of the LBuffer, in their fixed order
\* from the lights SRV slot on, and the aggregate light constant buffer, to
\* the pixel stage and to the compute stage alike; after a completed Render
\* the lighting bindings of the two stages are identical and are these views.
C14_BindsNineViewsToBothStages ==
    /\ [][BindStep =>
            /\ ps_srvs' = LBufferViews
            /\ cs_srvs' = LBufferViews
            /\ ps_cb' = m_light_buffer.m_buffer
            /\ cs_cb' = m_light_buffer.m_buffer]_vars
    /\ [](RenderCompleted =>
            /\ ps_srvs = cs_srvs
            /\ ps_cb = cs_cb
            /\ ps_srvs = LBufferViews
            /\ DOMAIN ps_srvs = SLOT_SRV_LIGHTS_START..(SLOT_SRV_LIGHTS_START + 8))

\* C14 witness: a completed Render has bound the replaced omni cube-map
\* buffer and the re-created shadow-mapped omni light buffer to both stages.
C14_Witness ==
    /\ RenderCompleted
    /\ ps_srvs[SLOT_SRV_LIGHTS_START + 7] = << "omni_sms", 1 >>
    /\ cs_srvs[SLOT_SRV_LIGHTS_START + 7] = << "omni_sms", 1 >>
    /\ ps_srvs[SLOT_SRV_LIGHTS_START + 4] = << "sm_omni_lights", 1 >>
    /\ cs_srvs[SLOT_SRV_LIGHTS_START + 4] = << "sm_omni_lights", 1 >>
    /\ ps_cb = << "light_buffer", 0 >>
    /\ cs_cb = << "light_buffer", 0 >>

\* The slots of the three shadow-map SRVs and of the six light-buffer SRVs.
ShadowMapSlots == SLOT_SRV_SHADOW_MAPS_START..(SLOT_SRV_SHADOW_MAPS_START + 2)

LightBufferSlots == SLOT_SRV_LIGHTS_START..(SLOT_SRV_LIGHTS_START + 5)

\* A step of Render that is its UnbindSMSs call.
UnbindStep == pc = "UnbindSMSs" /\ pc' # pc

\* C15: UnbindSMSs binds the null view to the three shadow-map SRV slots of
\* the pixel stage and of the compute stage and changes nothing else: the
\* six light-buffer SRV bindings, the lighting constant-buffer bindings, the
\* aggregate light buffer, the packed buffers and the shadow-map buffers
\* are as before.
C15_UnbindOnlyShadowMapSlots ==
    [][UnbindStep =>
        /\ \A slot \in ShadowMapSlots :
              ps_srvs'[slot] = NullSRV /\ cs_srvs'[slot] = NullSRV
        /\ \A slot \in LightBufferSlots :
              ps_srvs'[slot] = ps_srvs[slot] /\ cs_srvs'[slot] = cs_srvs[slot]
        /\ DOMAIN ps_srvs' = ShadowMapSlots \cup LightBufferSlots
        /\ DOMAIN cs_srvs' = ShadowMapSlots \cup LightBufferSlots
        /\ ps_cb' = ps_cb
        /\ cs_cb' = cs_cb
        /\ m_light_buffer' = m_light_buffer
        /\ lights_vars' = lights_vars
        /\ sms_vars' = sms_vars]_vars

\* C15 witness: in the second frame UnbindSMSs has run on the bindings of
\* the first: the shadow-map slots are null, the light-buffer slots and the
\* constant buffer are still bound.
C15_Witness ==
    /\ pc = "ProcessLightsWithShadowMapping_directional"
    /\ nb_frames = 2
    /\ \A slot \in ShadowMapSlots : ps_srvs[slot] = NullSRV /\ cs_srvs[slot] = NullSRV
    /\ \A slot \in LightBufferSlots : ps_srvs[slot] # NullSRV /\ cs_srvs[slot] # NullSRV
    /\ ps_cb = << "light_buffer", 0 >>
    /\ cs_cb = << "light_buffer", 0 >>

(***************************************************************************)
(* The update of the aggregate light buffer.                               *)
(***************************************************************************)
\* The six light buffers hold the packing of the six lists of the frame.
AllLightsProcessed ==
    /\ size(m_directional_lights) = Len(scene.directional)
    /\ size(m_omni_lights) = Cardinality(KeptOmni(scene.omni))
    /\ size(m_spot_lights) = Cardinality(KeptSpot(scene.spot))
    /\ \A c \in Categories : size(ShadowLights(c)) = KeptCount(c)
    /\ DirectionalProcessed /\ OmniProcessed /\ SpotProcessed
    /\ SMDirectionalProcessed /\ SMOmniProcessed /\ SMSpotProcessed

DSVsPerShadowMap(c) == IF c = "omni" THEN 6 ELSE 1

\* A fully constructed buffer: it has its SRV and the DSVs of all its
\* shadow maps, at least one.
FullyConstructed(c, buffer) ==
    /\ buffer.m_srv # NullSRV
    /\ buffer.m_srv = buffer.id
    /\ Len(buffer.m_dsvs) >= DSVsPerShadowMap(c)
    /\ Len(buffer.m_dsvs) % DSVsPerShadowMap(c) = 0
    /\ \A i \in DOMAIN buffer.m_dsvs :
          buffer.m_dsvs[i] = << buffer.id[1], buffer.id[2], i >>

\* C17: in every state, also after a failed replacement, the shadow-map
\* buffer of each category is a fully constructed buffer with at least one
\* shadow map and its SRV; a Setup step leaves either the same buffer or a
\* new, fully constructed one.
C17_ShadowMapBufferAlwaysValid ==
    /\ [](\A c \in Categories :
            /\ FullyConstructed(c, ShadowMaps(c))
            /\ Capacity(c) >= 1)
    /\ [][\A c \in Categories :
            SetupStep(c) =>
                \/ ShadowMaps(c)' = ShadowMaps(c)
                \/ /\ ShadowMaps(c)'.id = NextObject(ShadowMaps(c).id)
                   /\ FullyConstructed(c, ShadowMaps(c)')
                   /\ ~SetupFailed(c)]_vars

\* C17 witness: Render was left by the failure to construct a cube-map
\* buffer for 2 shadow casters; the first buffer, with its SRV and its 6
\* DSVs, is still in place.
C17_Witness ==
    /\ pc = "idle"
    /\ thrown
    /\ size(m_sm_omni_lights) = 2
    /\ m_omni_sms.m_srv = << "omni_sms", 0 >>
    /\ Len(m_omni_sms.m_dsvs) = 6
    /\ FullyConstructed("omni", m_omni_sms)

(***************************************************************************)
(* The packed sequences as a function of the frame input.                  *)
(***************************************************************************)
\* The six packed sequences of a frame, computed from its scene lists and
\* its camera transforms alone.
FramePacking(sc, cam) ==
    [directional |-> ProcessDirectionalLights(sc.directional, Camera(cam).world_to_view),
     omni |-> ProcessOmniLights(sc.omni, Camera(cam).world_to_projection,
                                Camera(cam).world_to_view),
     spot |-> ProcessSpotLights(sc.spot, Camera(cam).world_to_projection,
                                Camera(cam).world_to_view),
     sm_directional |->
         ProcessSMDirectionalLights(sc.sm_directional, Camera(cam).world_to_view,
                                    Camera(cam).view_to_world).buffer,
     sm_omni |->
         ProcessSMOmniLights(sc.sm_omni, Camera(cam).world_to_projection,
                             Camera(cam).world_to_view, Camera(cam).view_to_world).buffer,
     sm_spot |->
         ProcessSMSpotLights(sc.sm_spot, Camera(cam).world_to_projection,
                             Camera(cam).world_to_view, Camera(cam).view_to_world).buffer]

\* C18: after a completed Render the six packed sequences and the six count
\* fields are those determined by the scene lists and the transforms of
\* that frame, whatever the earlier frames of the pass were: two passes with
\* different histories that render the same frame input hold the same packed
\* sequences and counts.
C18_PackingDependsOnFrameInputOnly ==
    RenderCompleted =>
        LET packed == FramePacking(scene, camera)
        IN  /\ m_directional_lights.data = packed.directional
            /\ m_omni_lights.data = packed.omni
            /\ m_spot_lights.data = packed.spot
            /\ m_sm_directional_lights.data = packed.sm_directional
            /\ m_sm_omni_lights.data = packed.sm_omni
            /\ m_sm_spot_lights.data = packed.sm_spot
            /\ m_light_buffer.m_nb_directional_lights = Len(packed.directional)
            /\ m_light_buffer.m_nb_omni_lights = Len(packed.omni)
            /\ m_light_buffer.m_nb_spot_lights = Len(packed.spot)
            /\ m_light_buffer.m_nb_sm_directional_lights = Len(packed.sm_directional)
            /\ m_light_buffer.m_nb_sm_omni_lights = Len(packed.sm_omni)
            /\ m_light_buffer.m_nb_sm_spot_lights = Len(packed.sm_spot)

\* C18 witness: a second Render has completed on a pass whose first frame
\* had grown the omni capacity and the shadow-mapped omni buffer to 2; this
\* frame has 2 directional lights and no shadow-casting omni light.
C18_Witness ==
    /\ RenderCompleted
    /\ nb_frames = 2
    /\ Capacity("omni") = 2
    /\ m_sm_omni_lights.m_nb_data_elements = 2
    /\ size(m_sm_omni_lights) = 0
    /\ m_light_buffer.m_nb_sm_omni_lights = 0
    /\ size(m_directional_lights) = 2
    /\ m_light_buffer.m_nb_directional_lights = 2

(***************************************************************************)
(* Allocation of the light buffers.                                        *)
(***************************************************************************)
\* The six light buffers with the count field of each.
LightBuffers ==
    << << m_directional_lights, m_light_buffer.m_nb_directional_lights >>,
       << m_omni_lights, m_light_buffer.m_nb_omni_lights >>,
       << m_spot_lights, m_light_buffer.m_nb_spot_lights >>,
       << m_sm_directional_lights, m_light_buffer.m_nb_sm_directional_lights >>,
       << m_sm_omni_lights, m_light_buffer.m_nb_sm_omni_lights >>,
       << m_sm_spot_lights, m_light_buffer.m_nb_sm_spot_lights >> >>

\* C19: no light buffer ever has zero allocated elements, and after a
\* completed Render the count field of a category without visible lights is
\* 0 while its buffer keeps its allocation of at least one element.
C19_NoZeroElementBuffer ==
    /\ \A k \in DOMAIN LightBuffers :
          /\ LightBuffers[k][1].m_nb_data_elements >= 1
          /\ size(LightBuffers[k][1]) <= LightBuffers[k][1].m_nb_data_elements
    /\ RenderCompleted =>
          /\ \A k \in DOMAIN LightBuffers :
                size(LightBuffers[k][1]) = 0 => LightBuffers[k][2] = 0
          /\ KeptOmni(scene.omni) = {} => m_light_buffer.m_nb_omni_lights = 0
          /\ KeptSpot(scene.spot) = {} => m_light_buffer.m_nb_spot_lights = 0
          /\ \A c \in Categories : KeptCount(c) = 0 => ShadowCount(c) = 0
          /\ scene.directional = <<>> => m_light_buffer.m_nb_directional_lights = 0

\* C19 witness: the second Render has completed with no visible shadow
\* casting spotlight (the only one of the list was culled) after a frame
\* that had 2: the count field is 0 and the buffer still has 2 elements
\* allocated.
C19_Witness ==
    /\ RenderCompleted
    /\ nb_frames = 2
    /\ Len(scene.sm_spot) = 1
    /\ KeptCount("spot") = 0
    /\ m_light_buffer.m_nb_sm_spot_lights = 0
    /\ size(m_sm_spot_lights) = 0
    /\ m_sm_spot_lights.m_nb_data_elements = 2

(***************************************************************************)
(* Culling against the clip volume.                                        *)
(***************************************************************************)
MinOf(S) == CHOOSE x \in S : \A y \in S : x <= y

MaxOf(S) == CHOOSE x \in S : \A y \in S : x >= y

\* The axis-aligned box of a bounding sphere.
BoxOfSphere(bs) ==
    [min |-> << bs.p[1] - bs.r, bs.p[2] - bs.r, bs.p[3] - bs.r >>,
     max |-> << bs.p[1] + bs.r, bs.p[2] + bs.r, bs.p[3] + bs.r >>]

\* The axis-aligned box, in clip space, of a box of object space.
ProjectedAABB(object_to_projection, aabb) ==
    LET pts == { XMVector3TransformCoord(c, object_to_projection) : c \in Corners(aabb) }
    IN  [min |-> << MinOf({ q[1] : q \in pts }), MinOf({ q[2] : q \in pts }),
                    MinOf({ q[3] : q \in pts }) >>,
         max |-> << MaxOf({ q[1] : q \in pts }), MaxOf({ q[2] : q \in pts }),
                    MaxOf({ q[3] : q \in pts }) >>]

\* A box of clip space has a point in common with the clip volume [-1,1]^3.
OverlapsClipVolume(box) ==
    \A axis \in 1..3 : box.min[axis] <= 1 /\ box.max[axis] >= -1

\* The bounding volume of an omni light / a spotlight, projected to clip
\* space under the transforms of the frame.
ProjectedOmni(name) ==
    ProjectedAABB(XMMatrixMultiply(Node(name).transform.object_to_world,
                                   Camera(camera).world_to_projection),
                  BoxOfSphere(Node(name).light.bs))

ProjectedSpot(name) ==
    ProjectedAABB(XMMatrixMultiply(Node(name).transform.object_to_world,
                                   Camera(camera).world_to_projection),
                  Node(name).light.aabb)

UnboundPcs ==
    { "ProcessLightsWithShadowMapping_directional", "SetupDirectionalShadowMaps",
      "ProcessLightsWithShadowMapping_omni", "SetupOmniShadowMaps",
      "ProcessLightsWithShadowMapping_spot", "SetupSpotShadowMaps",
      "ProcessLightsData", "BindLBuffer" }

\* The SRVs of the current shadow-map buffers, in slot order.
CurrentShadowSRVs == << m_directional_sms.m_srv, m_omni_sms.m_srv, m_spot_sms.m_srv >>

\* The SRV a stage has bound to the i-th shadow-map slot.
BoundShadowSRV(table, i) == table[SLOT_SRV_SHADOW_MAPS_START + i - 1]

\* C22: within a Render call the three shadow-map slots of the pixel and of
\* the compute stage are null from UnbindSMSs until BindLBuffer; a shadow-map
\* buffer is replaced only inside that interval; so a shadow-map slot never
\* holds anything but null or the SRV of the pass's current buffer of its
\* category, and after a Render that returns the three slots of both stages
\* hold the SRVs of the current buffers.
C22_ShadowSlotsNullWhileReplacing ==
    /\ [](pc \in UnboundPcs =>
            \A i \in 1..3 : /\ BoundShadowSRV(ps_srvs, i) = NullSRV
                            /\ BoundShadowSRV(cs_srvs, i) = NullSRV)
    /\ [][\A c \in Categories : ShadowMaps(c)' # ShadowMaps(c) => pc \in UnboundPcs]_vars
    /\ [](\A i \in 1..3 :
            /\ BoundShadowSRV(ps_srvs, i) \in { NullSRV, CurrentShadowSRVs[i] }
            /\ BoundShadowSRV(cs_srvs, i) \in { NullSRV, CurrentShadowSRVs[i] })
    /\ [](RenderCompleted =>
            \A i \in 1..3 : /\ BoundShadowSRV(ps_srvs, i) = CurrentShadowSRVs[i]
                            /\ BoundShadowSRV(cs_srvs, i) = CurrentShadowSRVs[i])

\* C22 witness: the first Render returned without growing the omni buffer
\* and left its SRV bound; the second Render has unbound the slots and
\* replaced the omni buffer, and is about to upload the light data.
C22_Witness ==
    /\ nb_frames = 2
    /\ pc = "ProcessLightsData"
    /\ ps_cb # NullSRV
    /\ m_light_buffer.m_nb_sm_omni_lights <= 1
    /\ m_omni_sms.id = << "omni_sms", 1 >>
    /\ \A i \in 1..3 : BoundShadowSRV(ps_srvs, i) = NullSRV

\* C23: after every Render that returns, the shadow-map buffer of each
\* category has at least as many shadow (cube) maps as the count field of
\* the frame, and every DSV index below the count (below 6 times the count
\* for omni lights) is an index of its DSV vector.
C23_DSVForEveryCountedCaster ==
    RenderCompleted =>
        \A c \in Categories :
            /\ Capacity(c) >= ShadowCount(c)
            /\ Len(ShadowMaps(c).m_dsvs) >= DSVsPerShadowMap(c) * ShadowCount(c)
            /\ \A i \in 0..(DSVsPerShadowMap(c) * ShadowCount(c) - 1) :
                  (i + 1) \in DOMAIN ShadowMaps(c).m_dsvs

\* C23 witness: a Render with two shadow-mapped omni lights has returned and
\* the cube-map buffer has twelve DSVs.
C23_Witness ==
    /\ RenderCompleted
    /\ ShadowCount("omni") = 2
    /\ Len(m_omni_sms.m_dsvs) = 12

\* C24: the steps UnbindSMSs and BindLBuffer of Render change no shadow-map
\* buffer (identity, DSVs, SRV, capacity), no packed light buffer (buffer
\* object, contents, size) and not the aggregate light buffer.
C24_BindingChangesNoResource ==
    [][(pc = "UnbindSMSs" \/ pc = "BindLBuffer")
          => (UNCHANGED << sms_vars, lights_vars, m_light_buffer >>)]_vars

\* C24 witness: BindLBuffer has run in a second frame on a grown omni
\* buffer and a non-empty packed omni shadow buffer, and has bound them.
C24_Witness ==
    /\ RenderCompleted
    /\ nb_frames = 2
    /\ size(m_sm_omni_lights) = 1
    /\ Capacity("omni") = 2
    /\ BoundShadowSRV(ps_srvs, 2) = m_omni_sms.m_srv

\* C25: a Setup*ShadowMaps step of one category, whether it replaces the
\* buffer, changes nothing or fails, leaves the shadow-map buffers of the
\* other two categories (identity, DSVs, SRV, capacity) unchanged.
C25_SetupLeavesOtherCategories ==
    [][\A c \in Categories :
          SetupStep(c) => \A d \in Categories \ {c} : ShadowMaps(d)' = ShadowMaps(d)]_vars

\* C25 witness: the spot Setup step has just grown the spot buffer while
\* the directional buffer is still the initial one and the omni buffer is a
\* grown one.
C25_Witness ==
    /\ pc = AfterSetupPc("spot")
    /\ m_spot_sms.id = << "spot_sms", 1 >>
    /\ m_directional_sms.id = << "directional_sms", 0 >>
    /\ m_omni_sms.id = << "omni_sms", 1 >>

\* C26 as claimed: when ProcessLightsWithShadowMapping(directional) has
\* packed d lights, its LightCamera sequence has at least d entries.
C26_CameraPerDirectionalLight ==
    pc = "SetupDirectionalShadowMaps" => Len(cameras) >= size(m_sm_directional_lights)

\* The look directions of the cube faces in the order +x, -x, +y, -y, +z, -z.
FaceLooks ==
    << << 1, 0, 0 >>, << -1, 0, 0 >>, << 0, 1, 0 >>, << 0, -1, 0 >>,
       << 0, 0, 1 >>, << 0, 0, -1 >> >>

\* The direction of view space a light camera looks along.
ViewForward == << 0, 0, 1 >>

\* C27 as claimed: the cameras of the j-th packed shadow-mapped omni light
\* are the entries 6j .. 6j+5 (from 0) of the camera sequence, they share the
\* light's view-to-projection matrix, each has world_to_lprojection =
\* world_to_lview * lview_to_lprojection, and the i-th of them looks along
\* the i-th of +x, -x, +y, -y, +z, -z.
C27_OmniCamerasInFaceOrder ==
    pc = "SetupOmniShadowMaps" =>
        \A j \in 1..size(m_sm_omni_lights) : \A i \in 1..6 :
            LET node == Node(scene.sm_omni[NthKept(KeptOmni(scene.sm_omni), j)])
                k == 6 * (j - 1) + i
            IN  /\ k <= Len(cameras)
                /\ cameras[k].lview_to_lprojection = node.light.view_to_projection
                /\ cameras[k].world_to_lprojection =
                       XMMatrixMultiply(cameras[k].world_to_lview,
                                        cameras[k].lview_to_lprojection)
                /\ XMVector3TransformNormal(FaceLooks[i], cameras[k].world_to_lview)
                       = ViewForward

(***************************************************************************)
(* DeviceEnumeration::Enumerate: the choice of the adapter and its primary *)
(* output, and the COM references held while choosing.  The settings       *)
(* script and the contents of the settings dialog are left out; the dialog *)
(* only contributes its result.                                            *)
(***************************************************************************)
\* Largest DedicatedVideoMemory of an adapter.
MaxVram == 2

\* Largest number of Enumerate calls on one DeviceEnumeration.
MaxCalls == 2

\* What the factory and the adapter answer for one adapter: its dedicated
\* video memory, whether EnumOutputs(0) finds a primary output, and whether
\* the adapter / output supports IDXGIAdapter2 / IDXGIOutput2.
AdapterDescs ==
    [vram : 0..MaxVram, has_output : BOOLEAN, is_adapter2 : BOOLEAN, is_output2 : BOOLEAN]

AdapterLists == UNION { [1..n -> AdapterDescs] : n \in 0..MaxAdapters }

\* _countof(g_pixel_formats).
NbPixelFormats == 5

\* The heights of the display modes an output lists for every pixel format.
ModeHeights(k) == IF k = 1 THEN << 400, 480 >> ELSE << 600 >>

\* AddRef / Release on the references the DeviceEnumeration holds.
ComAcquire(refs, o) == [refs EXCEPT ![o] = @ + 1]

ComRelease(refs, o) == [refs EXCEPT ![o] = IF @ > 0 THEN @ - 1 ELSE 0]

\* SAFE_RELEASE(p) on a member pointing to object << kind, p >>.
SafeRelease(refs, kind, p) == IF p # 0 THEN ComRelease(refs, << kind, p >>) ELSE refs

\* A Release of object o, or a SAFE_RELEASE of a non-null member, finds no
\* held reference.
Unheld(refs, o) == refs[o] = 0

\* The test that skips an adapter: if (vram <= max_vram).
KeepsSelection_last(vram, max) == vram <= 0

KeepsSelection(vram, max) == vram <= max

\* The display modes pushed for output k: per pixel format, the modes whose
\* Height is at least 480.
RECURSIVE DisplayModes(_, _)
DisplayModes(k, format) ==
    IF format > NbPixelFormats THEN << >>
    ELSE SelectSeq([m \in 1..Len(ModeHeights(k)) |->
                       [Format |-> format, Height |-> ModeHeights(k)[m]]],
                   LAMBDA d : ~(d.Height < 480))
         \o DisplayModes(k, format + 1)

\* Enumerate up to the adapter loop: the members are released and reset and
\* the factory is created; a failing CreateDXGIFactory1 returns E_FAIL.
Enumerate_Begin ==
    /\ de_pc = "idle"
    /\ de_calls < MaxCalls
    /\ de_calls' = de_calls + 1
    /\ \E list \in AdapterLists, factory_created \in BOOLEAN :
        LET released == SafeRelease(SafeRelease(de_refs, "adapter", m_adapter),
                                    "output", m_output)
        IN  /\ de_adapters' = list
            /\ m_adapter' = 0
            /\ m_output' = 0
            /\ m_display_modes' = << >>
            /\ de_released_unheld' =
                   \/ de_released_unheld
                   \/ m_adapter # 0 /\ Unheld(de_refs, << "adapter", m_adapter >>)
                   \/ m_output # 0 /\ Unheld(de_refs, << "output", m_output >>)
            /\ IF factory_created
               THEN /\ de_refs' = ComAcquire(released, << "factory", 0 >>)
                    /\ de_pc' = "adapters"
                    /\ de_result' = "none"
               ELSE /\ de_refs' = released
                    /\ de_pc' = "idle"
                    /\ de_result' = "E_FAIL"
    /\ de_i' = 1
    /\ max_vram' = 0
    /\ UNCHANGED << lbuffer_vars, script_vars, progress_vars >>

\* One iteration of the adapter loop.
Enumerate_Adapter ==
    /\ de_pc = "adapters"
    /\ de_i <= Len(de_adapters)
    /\ LET a == de_adapters[de_i]
           adapter == << "adapter", de_i >>
           output == << "output", de_i >>
           factory == << "factory", 0 >>
           \* EnumAdapters1, QueryInterface(IDXGIAdapter2), adapter1->Release().
           r1 == IF a.is_adapter2 THEN ComAcquire(de_refs, adapter) ELSE de_refs
           \* EnumOutputs(0), QueryInterface(IDXGIOutput2), output->Release().
           r2 == IF a.is_output2 THEN ComAcquire(r1, output) ELSE r1
       IN  IF ~a.is_adapter2
           THEN \* return E_FAIL after factory->Release().
                /\ de_refs' = ComRelease(r1, factory)
                /\ de_pc' = "idle"
                /\ de_result' = "E_FAIL"
                /\ UNCHANGED << de_i, max_vram, m_adapter, m_output, de_released_unheld >>
           ELSE IF ~a.has_output
           THEN \* adapter2->Release(); continue.
                /\ de_refs' = ComRelease(r1, adapter)
                /\ de_i' = de_i + 1
                /\ UNCHANGED << de_pc, de_result, max_vram, m_adapter, m_output,
                                de_released_unheld >>
           ELSE IF ~a.is_output2
           THEN \* return E_FAIL.
                /\ de_refs' = r2
                /\ de_pc' = "idle"
                /\ de_result' = "E_FAIL"
                /\ UNCHANGED << de_i, max_vram, m_adapter, m_output, de_released_unheld >>
           ELSE IF KeepsSelection(a.vram, max_vram)
           THEN \* output2->Release(); adapter2->Release(); continue.
                /\ de_refs' = ComRelease(ComRelease(r2, output), adapter)
                /\ de_i' = de_i + 1
                /\ UNCHANGED << de_pc, de_result, max_vram, m_adapter, m_output,
                                de_released_unheld >>
           ELSE \* The members are released and replaced.
                /\ de_refs' = SafeRelease(SafeRelease(r2, "adapter", m_adapter),
                                          "output", m_output)
                /\ de_released_unheld' =
                       \/ de_released_unheld
                       \/ m_adapter # 0 /\ Unheld(r2, << "adapter", m_adapter >>)
                       \/ m_output # 0 /\ Unheld(r2, << "output", m_output >>)
                /\ m_adapter' = de_i
                /\ m_output' = de_i
                /\ max_vram' = a.vram
                /\ de_i' = de_i + 1
                /\ UNCHANGED << de_pc, de_result >>
    /\ UNCHANGED << de_adapters, m_display_modes, de_calls >>
    /\ UNCHANGED << lbuffer_vars, script_vars, progress_vars >>

\* The end of the adapter loop: the factory is released and the display
\* modes of m_output are listed.  With no adapter selected m_output is
\* nullptr and the call through it is an access violation.
Enumerate_DisplayModes ==
    /\ de_pc = "adapters"
    /\ de_i > Len(de_adapters)
    /\ de_refs' = ComRelease(de_refs, << "factory", 0 >>)
    /\ de_released_unheld' = (de_released_unheld \/ Unheld(de_refs, << "factory", 0 >>))
    /\ IF m_output = 0
       THEN /\ de_pc' = "crashed"
            /\ de_result' = "access violation"
            /\ UNCHANGED m_display_modes
       ELSE /\ de_pc' = "dialog"
            /\ m_display_modes' = DisplayModes(m_output, 1)
            /\ UNCHANGED de_result
    /\ UNCHANGED << de_adapters, de_i, max_vram, m_adapter, m_output, de_calls >>
    /\ UNCHANGED << lbuffer_vars, script_vars, progress_vars >>

\* The settings dialog: S_OK if it ends with IDOK, E_FAIL otherwise.
Enumerate_Dialog ==
    /\ de_pc = "dialog"
    /\ \E result_dialog \in { "IDOK", "IDCANCEL" } :
        de_result' = IF result_dialog = "IDOK" THEN "S_OK" ELSE "E_FAIL"
    /\ de_pc' = "idle"
    /\ UNCHANGED << de_adapters, de_i, max_vram, m_adapter, m_output, m_display_modes,
                    de_refs, de_released_unheld, de_calls >>
    /\ UNCHANGED << lbuffer_vars, script_vars, progress_vars >>

\* ~DeviceEnumeration: SAFE_RELEASE of both members.
DeviceEnumeration_Destruct ==
    /\ de_pc = "idle"
    /\ de_calls > 0
    /\ de_pc' = "destructed"
    /\ de_refs' = SafeRelease(SafeRelease(de_refs, "adapter", m_adapter), "output", m_output)
    /\ de_released_unheld' =
           \/ de_released_unheld
           \/ m_adapter # 0 /\ Unheld(de_refs, << "adapter", m_adapter >>)
           \/ m_output # 0 /\ Unheld(de_refs, << "output", m_output >>)
    /\ m_adapter' = 0
    /\ m_output' = 0
    /\ UNCHANGED << de_adapters, de_i, max_vram, m_display_modes, de_result, de_calls >>
    /\ UNCHANGED << lbuffer_vars, script_vars, progress_vars >>

NextEnum ==
    \/ Enumerate_Begin
    \/ Enumerate_Adapter
    \/ Enumerate_DisplayModes
    \/ Enumerate_Dialog
    \/ DeviceEnumeration_Destruct

SpecEnum == Init /\ [][NextEnum]_vars

\* The last Enumerate returned S_OK.
EnumerateSucceeded == de_pc = "idle" /\ de_result = "S_OK"

\* The enumerated adapters that expose a primary output.
WithOutput == { k \in DOMAIN de_adapters : de_adapters[k].has_output }

\* C21: after an Enumerate that returns S_OK, for every list of adapters of
\* the factory, the selected adapter is one of the enumerated adapters with
\* a primary output, none of these has more dedicated video memory, and the
\* selected output is the primary output of the selected adapter.
C21_SelectsMostVideoMemory ==
    EnumerateSucceeded =>
        /\ m_adapter \in WithOutput
        /\ m_output = m_adapter
        /\ \A k \in WithOutput : de_adapters[k].vram <= de_adapters[m_adapter].vram

\* C21 witness: Enumerate has succeeded on two adapters with outputs, the
\* second with more dedicated video memory than the first, and chose it.
C21_Witness ==
    /\ EnumerateSucceeded
    /\ Len(de_adapters) = 2
    /\ WithOutput = { 1, 2 }
    /\ de_adapters[1].vram = 1
    /\ de_adapters[2].vram = 2
    /\ m_adapter = 2

\* Enumerate or the destructor has returned.
EnumerateReturned == de_pc \in { "idle", "destructed" } /\ de_calls > 0

\* C29 as claimed: whenever Enumerate (or the destructor) has returned, no
\* Release was made without a held reference and the only references still
\* held are one on the selected adapter and one on the selected output.
C29_ReferencesBalanced ==
    EnumerateReturned =>
        /\ ~de_released_unheld
        /\ de_refs[<< "factory", 0 >>] = 0
        /\ \A k \in 1..MaxAdapters :
              /\ de_refs[<< "adapter", k >>] = IF m_adapter = k THEN 1 ELSE 0
              /\ de_refs[<< "output", k >>] = IF m_output = k THEN 1 ELSE 0

(***************************************************************************)
(* VariableScript::VariableScript: the word loop of the constructor and    *)
(* ImportVariable.  A file is its sequence of whitespace-separated words;  *)
(* the files of the model hold no variable of type string, whose value is  *)
(* read character by character.                                            *)
(***************************************************************************)
\* Largest number of words of a script file.
MaxTokens == 5

\* The words of the files.
Tokens == { "#begin", "#end", "x", "int", "float3" }

Files == UNION { [1..n -> Tokens] : n \in 0..MaxTokens }

Min(a, b) == IF a <= b THEN a ELSE b

\* fscanf_s(file, "%s", buffer) at file position next: the word read (the
\* buffer keeps its contents when no word is left), the new position, and
\* the end-of-file indicator, which is set when the read runs into the end
\* of the file: no word is left, or the word read is the last one and no
\* whitespace follows it.
ScanWord(file, trailing, next, eof, buffer) ==
    IF next > Len(file)
    THEN [buffer |-> buffer, next |-> next, eof |-> TRUE, read |-> FALSE]
    ELSE [buffer |-> file[next], next |-> next + 1,
          eof |-> (eof \/ (next = Len(file) /\ ~trailing)), read |-> TRUE]

\* n consecutive fscanf_s(file, "%s", buffer) calls whose words are values.
ScanWords(file, trailing, next, eof, n) ==
    LET consumed == Min(n, Len(file) + 1 - next)
    IN  [next |-> next + consumed,
         eof |-> \/ eof
                 \/ n > consumed
                 \/ consumed > 0 /\ next + consumed = Len(file) + 1 /\ ~trailing]

\* The type ImportVariable stores for a type word, and the number of value
\* words it reads for it.
TypeOf(word) == IF word \in { "int", "float3" } THEN word ELSE "unknown"

NbValues(type) == IF type = "float3" THEN 3 ELSE 1

\* AddVariable(name, type, value).
AddVariable(variables, name, type) == Append(variables, [name |-> name, type |-> type])

\* The test of the loop body that passes buffer to ImportVariable: read is
\* set and the word is not #end.
ImportsToken_outside(read, buffer) == buffer # "#end"

ImportsToken(read, buffer) == read /\ buffer # "#end"

\* The constructor up to the loop: the file is opened and the first word is
\* read.
VariableScript_Construct ==
    /\ vs_pc = "idle"
    /\ \E file \in Files, trailing \in BOOLEAN :
        LET w == ScanWord(file, trailing, 1, FALSE, "uninitialized")
        IN  /\ vs_file' = file
            /\ vs_trailing' = trailing
            /\ vs_buffer' = w.buffer
            /\ vs_next' = w.next
            /\ vs_eof' = w.eof
            /\ vs_bufpos' = IF w.read THEN 1 ELSE 0
            /\ vs_seen' = IF w.read THEN { [pos |-> 1, in_block |-> FALSE] } ELSE {}
    /\ vs_read' = FALSE
    /\ m_variables' = << >>
    /\ vs_imported' = {}
    /\ vs_pc' = "loop"
    /\ UNCHANGED << lbuffer_vars, enum_vars, progress_vars >>

\* One iteration of while (feof(file) == 0): the word in buffer is handled
\* and the next word is read.  ImportVariable reads the type word into its
\* own uninitialized buffer; when no word is left that buffer is compared
\* as it is, so the type is any of the types.
VariableScript_Loop ==
    /\ vs_pc = "loop"
    /\ ~vs_eof
    /\ \E garbage \in Tokens :
        LET import == ImportsToken(vs_read, vs_buffer)
            t == ScanWord(vs_file, vs_trailing, vs_next, vs_eof, garbage)
            type == TypeOf(t.buffer)
            v == ScanWords(vs_file, vs_trailing, t.next, t.eof, NbValues(type))
            read == IF import THEN vs_read
                    ELSE IF vs_read THEN FALSE
                    ELSE vs_buffer = "#begin"
            after == IF import THEN [next |-> v.next, eof |-> v.eof]
                     ELSE [next |-> vs_next, eof |-> vs_eof]
            w == ScanWord(vs_file, vs_trailing, after.next, after.eof, vs_buffer)
        IN  /\ m_variables' = IF import THEN AddVariable(m_variables, vs_buffer, type)
                              ELSE m_variables
            /\ vs_imported' = IF import THEN vs_imported \cup { vs_bufpos } ELSE vs_imported
            /\ vs_read' = read
            /\ vs_buffer' = w.buffer
            /\ vs_next' = w.next
            /\ vs_eof' = w.eof
            /\ vs_bufpos' = IF w.read THEN after.next ELSE vs_bufpos
            /\ vs_seen' = IF w.read
                          THEN vs_seen \cup { [pos |-> after.next, in_block |-> read] }
                          ELSE vs_seen
    /\ UNCHANGED << vs_pc, vs_file, vs_trailing >>
    /\ UNCHANGED << lbuffer_vars, enum_vars, progress_vars >>

\* The end of the loop: fclose(file).
VariableScript_Close ==
    /\ vs_pc = "loop"
    /\ vs_eof
    /\ vs_pc' = "constructed"
    /\ UNCHANGED << vs_file, vs_trailing, vs_next, vs_eof, vs_buffer, vs_read,
                    m_variables, vs_bufpos, vs_seen, vs_imported >>
    /\ UNCHANGED << lbuffer_vars, enum_vars, progress_vars >>

NextScript ==
    \/ VariableScript_Construct
    \/ VariableScript_Loop
    \/ VariableScript_Close

SpecScript == Init /\ [][NextScript]_vars

\* The word at index p is the last of the file and no whitespace follows it.
EndsFile(p) == p = Len(vs_file) /\ ~vs_trailing

\* The names of the variables, in the order of the words imported.
RECURSIVE ImportedNames(_)
ImportedNames(p) ==
    IF p > Len(vs_file) THEN << >>
    ELSE (IF p \in vs_imported THEN << vs_file[p] >> ELSE << >>) \o ImportedNames(p + 1)

\* C28 as claimed: of the words the constructor's loop has read, exactly
\* those read between a #begin and the next #end are imported as variables,
\* and neither #begin nor #end is ever imported.
C28_ImportedIffReadInBlock ==
    vs_pc = "constructed" =>
        /\ \A s \in vs_seen :
              s.pos \in vs_imported <=> (s.in_block /\ vs_file[s.pos] # "#end")
        /\ \A p \in vs_imported : vs_file[p] \notin { "#begin", "#end" }

\* C28 amended: a word read by the constructor's loop is imported as a
\* variable exactly if it was read with read set (after a #begin that opened
\* a block and before the #end that closes it), is not #end, and is not a
\* last word that runs into the end of the file.  So no word read outside a
\* block and no #end is imported, while a #begin read inside a block is
\* imported as a variable of that name.  The variables are the imported
\* words, in file order.
C28_ImportedIffReadInBlockBeforeEof ==
    vs_pc = "constructed" =>
        /\ \A s \in vs_seen :
              s.pos \in vs_imported
                  <=> (s.in_block /\ vs_file[s.pos] # "#end" /\ ~EndsFile(s.pos))
        /\ \A p \in vs_imported :
              /\ vs_file[p] # "#end"
              /\ \E s \in vs_seen : s.pos = p /\ s.in_block
        /\ [i \in 1..Len(m_variables) |-> m_variables[i].name] = ImportedNames(1)

\* C28 witness: the constructor has read a word outside a block, which is
\* not imported, and a #begin inside a block, which is.
C28_Witness ==
    /\ vs_pc = "constructed"
    /\ \E s \in vs_seen : ~s.in_block /\ vs_file[s.pos] = "x" /\ s.pos \notin vs_imported
    /\ \E p \in vs_imported : vs_file[p] = "#begin"

(***************************************************************************)
(* ProgressReporter: Update and Done called from several threads.  The     *)
(* MutexLock of both functions is held from its construction to the end of *)
(* the function; the loop that prints the plusses is one step per test and *)
(* one per plus.  Timing output is left out.                               *)
(***************************************************************************)
\* Largest number of work units (nb_work) of a reporter and of one Update.
MaxWork == 2

\* Largest bar_length and title length of a reporter.
MaxBarLength == 3

MaxTitle == 1

\* Largest number of Update / Done calls on one reporter.
MaxReports == 3

\* std::max(2u, bar_length - static_cast< uint32_t >(title.size())), for titles
\* not longer than the bar (the unsigned difference of a longer title wraps
\* to a bar of about 2^32 plusses).
NbPlussesTotal(bar_length, title_size) == Max(2, bar_length - title_size)

\* strlen of "\r%s: [" for a title of title_size characters.
BarStart(title_size) == 1 + title_size + 3

\* The values of plusses_needed in Update: round(percent_done * total)
\* cut to m_nb_plusses_total.  With m_nb_work_total = 0 the quotient is not
\* finite and its conversion to uint32_t is undefined: any value, cut.
PlussesNeeded_uncut(nb_work_done, nb_work_total, nb_plusses_total) ==
    IF nb_work_total = 0 THEN 0..nb_plusses_total
    ELSE { (2 * nb_work_done * nb_plusses_total + nb_work_total) \div (2 * nb_work_total) }

PlussesNeeded(nb_work_done, nb_work_total, nb_plusses_total) ==
    IF nb_work_total = 0 THEN 0..nb_plusses_total
    ELSE { Min((2 * nb_work_done * nb_plusses_total + nb_work_total) \div (2 * nb_work_total),
               nb_plusses_total) }

\* MutexLock lock(m_mutex): the constructor returns once no other thread
\* holds the mutex; the destructor frees it.
CanLock(mutex) == mutex = 0

Idle == [pc |-> "idle", nb_work |-> 0, plusses_needed |-> 0]

\* ProgressReporter::ProgressReporter.
ProgressReporter_Construct ==
    /\ \A t \in Threads : pr_thread[t].pc = "unconstructed"
    /\ \E title_size \in 0..MaxTitle, nb_work \in 0..MaxWork, bar_length \in 1..MaxBarLength,
          quiet \in BOOLEAN :
        /\ title_size <= bar_length
        /\ m_nb_work_total' = nb_work
        /\ m_nb_plusses_total' = NbPlussesTotal(bar_length, title_size)
        /\ pr_bar_start' = BarStart(title_size)
        /\ m_current_pos' = BarStart(title_size)
        /\ pr_quiet' = quiet
    /\ m_nb_work_done' = 0
    /\ m_nb_plusses_printed' = 0
    /\ pr_thread' = [t \in Threads |-> Idle]
    /\ UNCHANGED << m_mutex, pr_done_returned, pr_calls >>
    /\ UNCHANGED << lbuffer_vars, enum_vars, script_vars >>

\* Update(nb_work) up to the lock: the call returns at once for no work and
\* in quiet mode.
Update_Call(t) ==
    /\ pr_thread[t].pc = "idle"
    /\ pr_calls < MaxReports
    /\ pr_calls' = pr_calls + 1
    /\ \E nb_work \in 0..MaxWork :
        pr_thread' = [pr_thread EXCEPT ![t] =
                         IF nb_work = 0 \/ pr_quiet THEN Idle
                         ELSE [pc |-> "Update_lock", nb_work |-> nb_work,
                               plusses_needed |-> 0]]
    /\ UNCHANGED << pr_quiet, pr_bar_start, m_nb_work_total, m_nb_work_done,
                    m_nb_plusses_total, m_nb_plusses_printed, m_current_pos, m_mutex,
                    pr_done_returned >>
    /\ UNCHANGED << lbuffer_vars, enum_vars, script_vars >>

\* Update: the lock is taken, the work is added and plusses_needed computed.
Update_Lock(t) ==
    /\ pr_thread[t].pc = "Update_lock"
    /\ CanLock(m_mutex)
    /\ m_mutex' = t
    /\ m_nb_work_done' = m_nb_work_done + pr_thread[t].nb_work
    /\ \E needed \in PlussesNeeded(m_nb_work_done + pr_thread[t].nb_work,
                                   m_nb_work_total, m_nb_plusses_total) :
        pr_thread' = [pr_thread EXCEPT ![t].pc = "Update_test",
                                       ![t].plusses_needed = needed]
    /\ UNCHANGED << pr_quiet, pr_bar_start, m_nb_work_total, m_nb_plusses_total,
                    m_nb_plusses_printed, m_current_pos, pr_done_returned, pr_calls >>
    /\ UNCHANGED << lbuffer_vars, enum_vars, script_vars >>

\* Update: the test of while (m_nb_plusses_printed < plusses_needed); when
\* it fails the buffer is written and the function returns, freeing the lock.
Update_Test(t) ==
    /\ pr_thread[t].pc = "Update_test"
    /\ IF m_nb_plusses_printed < pr_thread[t].plusses_needed
       THEN /\ pr_thread' = [pr_thread EXCEPT ![t].pc = "Update_print"]
            /\ UNCHANGED m_mutex
       ELSE /\ pr_thread' = [pr_thread EXCEPT ![t] = Idle]
            /\ m_mutex' = IF m_mutex = t THEN 0 ELSE m_mutex
    /\ UNCHANGED << pr_quiet, pr_bar_start, m_nb_work_total, m_nb_work_done,
                    m_nb_plusses_total, m_nb_plusses_printed, m_current_pos,
                    pr_done_returned, pr_calls >>
    /\ UNCHANGED << lbuffer_vars, enum_vars, script_vars >>

\* Update: *m_current_pos++ = m_plus_char; ++m_nb_plusses_printed.
Update_Plus(t) ==
    /\ pr_thread[t].pc = "Update_print"
    /\ m_current_pos' = m_current_pos + 1
    /\ m_nb_plusses_printed' = m_nb_plusses_printed + 1
    /\ pr_thread' = [pr_thread EXCEPT ![t].pc = "Update_test"]
    /\ UNCHANGED << pr_quiet, pr_bar_start, m_nb_work_total, m_nb_work_done,
                    m_nb_plusses_total, m_mutex, pr_done_returned, pr_calls >>
    /\ UNCHANGED << lbuffer_vars, enum_vars, script_vars >>

\* Done up to the lock: the call returns at once in quiet mode.
Done_Call(t) ==
    /\ pr_thread[t].pc = "idle"
    /\ pr_calls < MaxReports
    /\ pr_calls' = pr_calls + 1
    /\ IF pr_quiet
       THEN /\ pr_done_returned' = TRUE
            /\ UNCHANGED pr_thread
       ELSE /\ pr_thread' = [pr_thread EXCEPT ![t].pc = "Done_lock"]
            /\ UNCHANGED pr_done_returned
    /\ UNCHANGED << pr_quiet, pr_bar_start, m_nb_work_total, m_nb_work_done,
                    m_nb_plusses_total, m_nb_plusses_printed, m_current_pos, m_mutex >>
    /\ UNCHANGED << lbuffer_vars, enum_vars, script_vars >>

Done_Lock(t) ==
    /\ pr_thread[t].pc = "Done_lock"
    /\ CanLock(m_mutex)
    /\ m_mutex' = t
    /\ pr_thread' = [pr_thread EXCEPT ![t].pc = "Done_test"]
    /\ UNCHANGED << pr_quiet, pr_bar_start, m_nb_work_total, m_nb_work_done,
                    m_nb_plusses_total, m_nb_plusses_printed, m_current_pos,
                    pr_done_returned, pr_calls >>
    /\ UNCHANGED << lbuffer_vars, enum_vars, script_vars >>

\* Done: the test of while (m_nb_plusses_printed < m_nb_plusses_total).
Done_Test(t) ==
    /\ pr_thread[t].pc = "Done_test"
    /\ IF m_nb_plusses_printed < m_nb_plusses_total
       THEN /\ pr_thread' = [pr_thread EXCEPT ![t].pc = "Done_print"]
            /\ UNCHANGED << m_mutex, pr_done_returned >>
       ELSE /\ pr_thread' = [pr_thread EXCEPT ![t] = Idle]
            /\ m_mutex' = IF m_mutex = t THEN 0 ELSE m_mutex
            /\ pr_done_returned' = TRUE
    /\ UNCHANGED << pr_quiet, pr_bar_start, m_nb_work_total, m_nb_work_done,
                    m_nb_plusses_total, m_nb_plusses_printed, m_current_pos, pr_calls >>
    /\ UNCHANGED << lbuffer_vars, enum_vars, script_vars >>

Done_Plus(t) ==
    /\ pr_thread[t].pc = "Done_print"
    /\ m_current_pos' = m_current_pos + 1
    /\ m_nb_plusses_printed' = m_nb_plusses_printed + 1
    /\ pr_thread' = [pr_thread EXCEPT ![t].pc = "Done_test"]
    /\ UNCHANGED << pr_quiet, pr_bar_start, m_nb_work_total, m_nb_work_done,
                    m_nb_plusses_total, m_mutex, pr_done_returned, pr_calls >>
    /\ UNCHANGED << lbuffer_vars, enum_vars, script_vars >>

NextProgress ==
    \/ ProgressReporter_Construct
    \/ \E t \in Threads : Update_Call(t)
    \/ \E t \in Threads : Update_Lock(t)
    \/ \E t \in Threads : Update_Test(t)
    \/ \E t \in Threads : Update_Plus(t)
    \/ \E t \in Threads : Done_Call(t)
    \/ \E t \in Threads : Done_Lock(t)
    \/ \E t \in Threads : Done_Test(t)
    \/ \E t \in Threads : Done_Plus(t)

SpecProgress == Init /\ [][NextProgress]_vars

\* C30 as claimed: in every interleaving of Update and Done calls the
\* number of plusses printed never exceeds the total, the write position
\* stays inside the bar, the number never decreases, and once a Done has
\* returned it equals the total.
C30_PlussesBoundedMonotoneComplete ==
    /\ [](/\ m_nb_plusses_printed <= m_nb_plusses_total
          /\ m_current_pos <= pr_bar_start + m_nb_plusses_total)
    /\ [][m_nb_plusses_printed' >= m_nb_plusses_printed]_vars
    /\ [](pr_done_returned => m_nb_plusses_printed = m_nb_plusses_total)

\* C30 amended: the bound, the write position and the monotonicity as
\* claimed; once a Done has returned the number of plusses printed equals
\* the total unless logging is quiet, in which case Update and Done print
\* nothing and the number stays 0.
C30_PlussesBoundedMonotoneCompleteUnlessQuiet ==
    /\ [](/\ m_nb_plusses_printed <= m_nb_plusses_total
          /\ m_current_pos = pr_bar_start + m_nb_plusses_printed)
    /\ [][m_nb_plusses_printed' >= m_nb_plusses_printed]_vars
    /\ []((pr_done_returned /\ ~pr_quiet) => m_nb_plusses_printed = m_nb_plusses_total)
    /\ [](pr_quiet => m_nb_plusses_printed = 0)

\* C30 witness: a Done has returned with the bar full while another thread,
\* whose Update asks for more work than the total, is inside its loop.
C30_Witness ==
    /\ pr_done_returned
    /\ ~pr_quiet
    /\ m_nb_plusses_printed = m_nb_plusses_total
    /\ m_nb_work_done > m_nb_work_total
    /\ m_nb_work_total > 0
    /\ \E t \in Threads : pr_thread[t].pc = "Update_test"

====
